---- MODULE Spec2Model ----
(***************************************************************************)
(* The point-of-sale page (src/modules/pos/pages/POSPage.tsx): the cart    *)
(* it edits through the cart slice, the stock guards in front of the cart  *)
(* actions, the catalog snapshot it fetches, and the checkout handler      *)
(* handleConfirmSale with the requests it issues; the Tables view          *)
(* (src/modules/tables/pages/TablesPage.tsx) with its polling timer and    *)
(* its table selection and its open, add-items, remove-item and pay        *)
(* handlers; and the void dialog of the invoices page                      *)
(* (src/modules/invoices/pages/InvoicesPage.tsx).                          *)
(*                                                                         *)
(* Money is in whole pesos.  Sale prices are multiples of 100, so the      *)
(* percentage subtotal * value / 100 is an exact integer.                  *)
(***************************************************************************)
EXTENDS Integers, Sequences, FiniteSets, TLC

\* ---------------------------------------------------------------- bounds
MaxStock == 2          \* largest on-hand quantity a fetched catalog reports
MaxPending == 1        \* requests of one kind in flight at a time
MaxRemoves == 2        \* removeItem requests in flight at a time

\* ------------------------------------------------------------- constants
Null == 0              \* a null id (ids start at 1; the code tests ids for truthiness)
NotListed == -1        \* a product the fetched list does not contain
NoToast == "none"
NoDraft == <<>>        \* draftCategoryOrder = null; a draft d is held as <<d>>

EmptyText == -1        \* the text of an <input type="number"> holding no number
NaN == -2              \* parseFloat of such a text
Products == {1, 2}
Customers == {1}
Tables == {1}
InvoiceIds == {7, 8}
TableStatus == {"DISPONIBLE", "OCUPADA", "RESERVADA", "FUERA_DE_SERVICIO"}
Inactive == "INACTIVA"         \* a table with isActive = false (server side)
Unlisted == "NO_LISTADA"       \* a table the local list does not contain
PaymentMethods == {"EFECTIVO", "TARJETA_CREDITO"}
SalePrice(p) == 3000 + 1000 * p
DiscountValues == {10, 9000}
DiscountTypes == {"percent", "amount"}
CategoryLists == {<<1, 2>>}
StockLevels == 0..MaxStock

VARIABLES
    items,              \* state.cart.items: sequence of [id, price, quantity]
    customerId,         \* state.cart.customerId
    discount,           \* state.cart.discount
    discountType,       \* state.cart.discountType
    products,           \* useState products: product id -> stock it lists, or NotListed
    categories,         \* useState categories: sequence of category ids
    loading,            \* useState loading
    fetchDataPending,   \* fetchData() calls whose Promise.all has not settled
    isOrganizingCategories,
    draftCategoryOrder,
    reorderPending,     \* categoryService.reorder requests in flight
    toast,              \* the last toast shown
    tables,             \* useState tables: table id -> status it lists, or Unlisted
    fetchTablesPending, \* fetchTables() calls whose getAll has not settled
    selectedTableId,
    srvTables,          \* the table service's own state: table id -> status, or Inactive
    showPaymentModal,
    paymentMethod,
    amountReceived,     \* the text of the amount field: a number or EmptyText
    processing,
    pc,                 \* the await handleConfirmSale is suspended at, or "idle"
    calls,              \* the requests issued by the latest handleConfirmSale, in order
    resultId,           \* (result as any).id of the create or pay response
    completedInvoice,
    showInvoiceConfirmModal,
    \* ---- TablesPage
    mounted,            \* the Tables view is mounted
    interval,           \* the setInterval(fetchTables, 30000) timer is armed
    viewLoading,        \* useState loading of the Tables view
    viewTables,         \* useState tables: table id -> the entry the list holds
    selectedTable,      \* useState selectedTable: a copy of a table, or NoTable
    activeSession,      \* useState activeSession: a session, or NoSession
    viewModal,          \* which of the four show...Modal flags is up, or "none"
    viewPaymentMethod,  \* useState paymentMethod of the pay form
    viewAmountReceived, \* useState amountReceived of the pay form (a text)
    viewProcessing,     \* useState processing of the Tables view
    itemsToAdd,         \* useState itemsToAdd: number of lines picked in the add-items modal
    viewReq,            \* the request the handler that raised processing awaits
    removePending,      \* removeItem requests in flight: sequence of [table, detail]
    sessionPending,     \* the tables clicked whose getActiveSession is in flight
    viewFetchPending,   \* fetchTables() calls in flight that no handler awaits
    srvFloor,           \* the table service: table id -> [status, details]
    \* ---- InvoicesPage
    invLoading,         \* useState loading of the invoices page
    invoices,           \* useState invoices: invoice id -> the status it lists, or Unlisted
    selectedInvoice,    \* useState selectedInvoice: an invoice id, or Null
    showVoidModal,
    voidReason,         \* useState voidReason: the text of the reason field
    invProcessing,      \* useState processing of the invoices page
    activeTab,          \* useState activeTab
    voidPending,        \* voidInvoice requests in flight: set of [id, reason]
    invFetchPending,    \* fetchInvoices() calls whose getAll has not settled
    srvInvoices,        \* the invoice service: invoice id -> status
    \* ---- InventoryPage
    inventoryLoading,   \* useState loading of the inventory page
    inventory,          \* useState inventory: the item's listed quantity, or NotListed
    adjustModal,        \* useState adjustModal: [type, quantity, productId], or NoAdjust
    adjustQuantity,     \* useState adjustQuantity: the text of the quantity field
    adjustProcessing,   \* useState processing of the inventory page
    adjustReq,          \* the stock request handleAdjust awaits, or NoAdjust
    inventoryPending,   \* fetchInventory() calls whose getAll has not settled
    srvStock,           \* the inventory service: [quantity, productId] of the item
    \* ---- useSseEvents
    sse,                \* the hook: its props, its two refs, the sources that are open,
                        \* those that have fired 'connected', and the pending timers
    \* ---- settingsSlice
    settings,           \* state.settings of the store
    stored,             \* what localStorage holds under 'pos_settings': "absent",
                        \* "unreadable" (no JSON) or "json"
    blob,               \* the object that JSON describes, when stored = "json"
    \* ---- DashboardPage and ReportsPage
    dashboard,          \* dateRange, the range whose summary and chart are shown, the
                        \* two loading flags and the requests in flight
    reportsPage,        \* dateRange, the range whose report is shown, loading and the
                        \* fetchReports() calls in flight
    \* ---- router
    route               \* the page the router renders

cartVars == <<items, customerId, discount, discountType>>
catalogVars == <<products, categories, loading, fetchDataPending>>
organizeVars == <<isOrganizingCategories, draftCategoryOrder, reorderPending>>
tableVars == <<tables, fetchTablesPending, selectedTableId, srvTables>>
payVars == <<showPaymentModal, paymentMethod, amountReceived, processing, pc, calls,
             resultId, completedInvoice, showInvoiceConfirmModal>>
checkoutVars == <<tableVars, payVars>>
posVars == <<cartVars, catalogVars, organizeVars, toast, checkoutVars>>
viewVars == <<mounted, interval, viewLoading, viewTables, selectedTable, activeSession,
              viewModal, viewPaymentMethod, viewAmountReceived, viewProcessing, itemsToAdd,
              viewReq, removePending, sessionPending, viewFetchPending,
              srvFloor>>
invoiceVars == <<invLoading, invoices, selectedInvoice, showVoidModal, voidReason,
                 invProcessing, activeTab, voidPending, invFetchPending, srvInvoices>>
inventoryVars == <<inventoryLoading, inventory, adjustModal, adjustQuantity,
                   adjustProcessing, adjustReq, inventoryPending, srvStock>>
\* what the actions of one page leave alone: the state of the others
hooks == <<sse, settings, stored, blob, dashboard, reportsPage>>
otherPages == <<route, viewVars, invoiceVars, inventoryVars, hooks>>
aroundView == <<route, posVars, invoiceVars, inventoryVars, hooks>>
aroundInvoices == <<route, posVars, viewVars, inventoryVars, hooks>>
aroundInventory == <<route, posVars, viewVars, invoiceVars, hooks>>
pages == <<route, posVars, viewVars, invoiceVars, inventoryVars, dashboard, reportsPage>>
aroundRanges == <<route, posVars, viewVars, invoiceVars, inventoryVars, sse, settings,
                  stored, blob>>
vars == <<posVars, otherPages>>

\* ------------------------------------------------------------ cart slice
RECURSIVE SumSeq(_)
SumSeq(s) == IF s = <<>> THEN 0 ELSE Head(s) + SumSeq(Tail(s))

HasLine(its, p) == \E i \in 1..Len(its) : its[i].id = p

QuantityOf(its, p) ==
    IF HasLine(its, p)
    THEN (CHOOSE l \in {its[i] : i \in 1..Len(its)} : l.id = p).quantity
    ELSE 0

addItem(its, p, price) ==
    IF HasLine(its, p)
    THEN [i \in 1..Len(its) |->
            IF its[i].id = p THEN [its[i] EXCEPT !.quantity = @ + 1] ELSE its[i]]
    ELSE Append(its, [id |-> p, price |-> price, quantity |-> 1])

incrementQuantity(its, p) ==
    [i \in 1..Len(its) |->
        IF its[i].id = p THEN [its[i] EXCEPT !.quantity = @ + 1] ELSE its[i]]

removeItem(its, p) == SelectSeq(its, LAMBDA l : l.id # p)

decrementQuantityKeepsZero(its, p) ==
    [i \in 1..Len(its) |->
        IF its[i].id = p THEN [its[i] EXCEPT !.quantity = @ - 1] ELSE its[i]]

decrementQuantity(its, p) ==
    SelectSeq([i \in 1..Len(its) |->
                  IF its[i].id = p THEN [its[i] EXCEPT !.quantity = @ - 1] ELSE its[i]],
              LAMBDA l : l.quantity > 0)

Min(a, b) == IF a < b THEN a ELSE b
Max(a, b) == IF a > b THEN a ELSE b

Subtotal(its) == SumSeq([i \in 1..Len(its) |-> its[i].price * its[i].quantity])
ItemCount(its) == SumSeq([i \in 1..Len(its) |-> its[i].quantity])

selectCartTotalUnclamped(its, d, kind) ==
    LET sub == Subtotal(its)
        disc == IF kind = "percent" THEN (sub * d) \div 100 ELSE d
    IN  [subtotal |-> sub, discountAmount |-> disc, total |-> sub - disc,
         itemCount |-> ItemCount(its)]

selectCartTotal(its, d, kind) ==
    LET sub == Subtotal(its)
        raw == IF kind = "percent" THEN (sub * d) \div 100 ELSE d
        disc == Max(0, Min(raw, sub))
    IN  [subtotal |-> sub, discountAmount |-> disc, total |-> sub - disc,
         itemCount |-> ItemCount(its)]

Totals == selectCartTotal(items, discount, discountType)

\* ----------------------------------------------------------- stock guards
\* product.inventory?.quantity || 0, for a product the page may not list
StockOf(p) == IF products[p] = NotListed THEN 0 ELSE products[p]

TileCanAddOffByOne(p) == StockOf(p) - QuantityOf(items, p) >= 0

\* the tile's guard: !isOutOfStock
TileCanAdd(p) == ~(StockOf(p) - QuantityOf(items, p) <= 0)

\* the cart line's guard: canIncrement
canIncrement(p) == QuantityOf(items, p) < StockOf(p)

\* ------------------------------------------- Tables view: data and state
ViewTables == {1}
DetailIds == {1}               \* ids of the invoice details a session can hold
DetailPrice == 1000            \* detail.subtotal, the same for every detail
MaxItemsToAdd == 1             \* lines picked in the add-items modal at most

\* a TableSession of table t holding the details ds
Session(t, ds) == [table |-> t, details |-> ds, total |-> DetailPrice * Cardinality(ds)]
NoSession == [table |-> Null, details |-> {}, total |-> 0]
\* selectedTable holds a copy of a RestaurantTable: only its id and status are read
NoTable == [id |-> Null, status |-> Unlisted]
NoReq == [op |-> "none"]

\* ---------------------------------------------------------- table service
\* what the service answers, from the state it holds
Entry(st, ds) == [status |-> st, details |-> ds]
Occupied(t) == srvFloor[t].status = "OCUPADA"

\* the floors the view may be mounted on: one table, free, or occupied with
\* a detail on its order
InitialFloors ==
    { [t \in ViewTables |-> Entry("DISPONIBLE", {})],
      [t \in ViewTables |-> Entry("OCUPADA", DetailIds)] }

\* ------------------------------------------------------------------ state
viewTimer == <<mounted, interval>>
viewForm == <<viewPaymentMethod, viewAmountReceived, itemsToAdd>>
viewAsync == <<removePending, sessionPending, viewFetchPending>>

\* the local state of a freshly mounted TablesPage, its init effect and its
\* polling effect run
ViewState ==
    /\ mounted = TRUE
    /\ interval = TRUE
    /\ viewLoading = TRUE
    /\ viewTables = [t \in DOMAIN srvFloor |-> Entry(Unlisted, {})]
    /\ selectedTable = NoTable
    /\ activeSession = NoSession
    /\ viewModal = "none"
    /\ viewPaymentMethod = "EFECTIVO"
    /\ viewAmountReceived = EmptyText
    /\ viewProcessing = FALSE
    /\ itemsToAdd = 0
    /\ viewReq = NoReq
    /\ removePending = <<>>
    /\ sessionPending = {}
    /\ viewFetchPending = 0

\* the Tables view not mounted
ViewAbsent ==
    /\ mounted = FALSE
    /\ interval = FALSE
    /\ viewLoading = FALSE
    /\ viewTables = [t \in ViewTables |-> Entry(Unlisted, {})]
    /\ selectedTable = NoTable
    /\ activeSession = NoSession
    /\ viewModal = "none"
    /\ viewPaymentMethod = "EFECTIVO"
    /\ viewAmountReceived = EmptyText
    /\ viewProcessing = FALSE
    /\ itemsToAdd = 0
    /\ viewReq = NoReq
    /\ removePending = <<>>
    /\ sessionPending = {}
    /\ viewFetchPending = 0
    /\ srvFloor = [t \in ViewTables |-> Entry(Unlisted, {})]

\* ----------------------------------------- invoices page: data and state
Invoices == {1, 2}
\* what the reason field can hold: nothing, white space only, a reason
ReasonTexts == {"", " ", "duplicada"}
\* String.prototype.trim
Trim(text) == IF text = " " THEN "" ELSE text

\* the two partitions the page derives from the list it holds
activeInvoices == {i \in Invoices : invoices[i] \notin {Unlisted, "ANULADA"}}
voidedInvoices == {i \in Invoices : invoices[i] = "ANULADA"}

\* the invoices page not mounted
InvoicesAbsent ==
    /\ invLoading = FALSE
    /\ invoices = [i \in Invoices |-> Unlisted]
    /\ selectedInvoice = Null
    /\ showVoidModal = FALSE
    /\ voidReason = ""
    /\ invProcessing = FALSE
    /\ activeTab = "active"
    /\ voidPending = {}
    /\ invFetchPending = 0
    /\ srvInvoices = [i \in Invoices |-> "COMPLETADA"]

\* ---------------------------------------- inventory page: data and state
NoAdjust == [type |-> "none", quantity |-> 0, productId |-> Null]
\* what the quantity field can hold
AdjustTexts == {EmptyText, 0, 1, MaxStock + 1}

\* the inventory page not mounted
InventoryAbsent ==
    /\ inventoryLoading = FALSE
    /\ inventory = NotListed
    /\ adjustModal = NoAdjust
    /\ adjustQuantity = EmptyText
    /\ adjustProcessing = FALSE
    /\ adjustReq = NoAdjust
    /\ inventoryPending = 0
    /\ srvStock = [quantity |-> 0, productId |-> Null]

\* ------------------------------------------------- useSseEvents: state
MaxSources == 3                \* EventSource objects, and timer handles, told apart
MaxReconnects == 3             \* where the count of reconnections stops counting
ReconnectDelay == 5            \* setTimeout(..., 5000), in seconds
NoHook == [mounted |-> FALSE, enabled |-> FALSE, accessToken |-> FALSE,
           eventSourceRef |-> Null, openSources |-> {}, announced |-> {},
           reconnectTimeoutRef |-> Null, timers |-> {}, reconnects |-> 0]

\* ------------------------------------------------- settingsSlice: state
ThemeKeys == {"primaryColor", "accentColor"}      \* two of the four colours
CompanyKeys == {"companyName", "logoUrl"}         \* two of the nine fields
Colors == {"#9b87f5", "#c4b5fd", "#000000"}
CompanyTexts == {"Mi Negocio", "", "data:image/png;base64"}
BusinessTypes == {"GENERAL", "RESTAURANTE"}

defaultState ==
    [theme |-> [primaryColor |-> "#9b87f5", accentColor |-> "#c4b5fd"],
     company |-> [companyName |-> "Mi Negocio", logoUrl |-> ""],
     businessType |-> "GENERAL",
     isLoading |-> FALSE]

\* { ...a, ...b }: b's keys win, a's remain
Spread(a, b) == [k \in DOMAIN a \cup DOMAIN b |-> IF k \in DOMAIN b THEN b[k] ELSE a[k]]
\* objects holding some of the keys
Partial(keys, values) == UNION {[ks -> values] : ks \in SUBSET keys}

\* loadFromStorage: the parsed object, or {} when there is none or
\* JSON.parse throws
loadFromStorage == IF stored = "json" THEN blob ELSE <<>>

\* initialState, as the module computes it when the application starts
initialState ==
    LET savedState == loadFromStorage
        part(k) == IF k \in DOMAIN savedState THEN savedState[k] ELSE <<>>
        merged == Spread(defaultState, savedState)
    IN  [k \in DOMAIN merged |->
            IF k \in {"theme", "company"}
            THEN Spread(defaultState[k], part(k))
            ELSE merged[k]]

\* the object saveToStorage hands to JSON.stringify
Saved(state) ==
    [theme |-> state.theme, company |-> state.company, businessType |-> state.businessType]

\* ------------------------------------- dashboard and reports: state
Ranges == {"today", "month"}   \* the date ranges told apart
\* the dashboard as mounted on a range: nothing shown yet, both effects running
Dashboard(range) ==
    [dateRange |-> range, summaryStats |-> "zero", dailySales |-> "empty",
     summaryLoading |-> TRUE, chartLoading |-> TRUE,
     summaryPending |-> {range}, chartPending |-> {range}, todayPending |-> 0]
\* the reports page as mounted on a range
Reports(range) ==
    [dateRange |-> range, salesSummary |-> "null", loading |-> TRUE, pending |-> {range}]
NoDashboard == [Dashboard("today") EXCEPT !.summaryPending = {}, !.chartPending = {}]
NoReports == [Reports("month") EXCEPT !.pending = {}]

HooksAbsent ==
    /\ sse = NoHook
    /\ settings = defaultState
    /\ stored = "absent"
    /\ blob = <<>>
    /\ dashboard = NoDashboard
    /\ reportsPage = NoReports

\* a handle no live object of the kind holds
FreshId(used) == CHOOSE i \in 1..MaxSources : i \notin used
\* the handles of the pending timers; a timer is [id, remaining]
TimerIds(s) == {t.id : t \in s.timers}

\* ------------------------------------------------------------------ Init
\* the local state of a freshly mounted POSPage (its useState initial values)
PageState ==
    /\ categories = <<>>
    /\ isOrganizingCategories = FALSE
    /\ draftCategoryOrder = NoDraft
    /\ reorderPending = 0
    /\ toast = NoToast
    /\ tables = [t \in Tables |-> Unlisted]
    /\ selectedTableId = Null
    /\ showPaymentModal = FALSE
    /\ paymentMethod = "EFECTIVO"
    /\ amountReceived = EmptyText
    /\ processing = FALSE
    /\ pc = "idle"
    /\ calls = <<>>
    /\ resultId = Null
    /\ completedInvoice = Null
    /\ showInvoiceConfirmModal = FALSE

\* The page right after mounting, its fetchData in flight; the table module is
\* not available (fetchTables has failed and left the table list empty).
Init ==
    /\ route = "pos"
    /\ PageState
    /\ ViewAbsent
    /\ InvoicesAbsent
    /\ InventoryAbsent
    /\ HooksAbsent
    /\ items = <<>>
    /\ customerId = Null
    /\ discount \in DiscountValues
    /\ discountType \in DiscountTypes
    /\ products = [p \in Products |-> NotListed]
    /\ loading = TRUE
    /\ fetchDataPending = 1
    /\ fetchTablesPending = 0
    /\ srvTables = [t \in Tables |-> Inactive]

\* ------------------------------------------------------------- fetchData
FetchDataOk ==
    /\ fetchDataPending > 0
    /\ \E snap \in [Products -> StockLevels \cup {NotListed}], cats \in CategoryLists :
          /\ products' = snap
          /\ categories' = cats
    /\ loading' = FALSE
    /\ fetchDataPending' = fetchDataPending - 1
    /\ UNCHANGED <<cartVars, organizeVars, toast, checkoutVars>>
    /\ UNCHANGED otherPages

FetchDataFail ==
    /\ fetchDataPending > 0
    /\ toast' = "Error al cargar productos"
    /\ loading' = FALSE
    /\ fetchDataPending' = fetchDataPending - 1
    /\ UNCHANGED <<cartVars, organizeVars, products, categories, checkoutVars>>
    /\ UNCHANGED otherPages

\* ----------------------------------------------------------- cart panel
\* the modals are full-screen overlays (fixed inset-0): while one is shown the
\* page under it takes no click
NoModal == ~showPaymentModal /\ ~showInvoiceConfirmModal

TileClickAppends(p) ==
    /\ NoModal
    /\ ~loading
    /\ products[p] # NotListed
    /\ StockOf(p) # 0
    /\ IF TileCanAdd(p)
       THEN /\ items' = Append(items, [id |-> p, price |-> SalePrice(p), quantity |-> 1])
            /\ UNCHANGED toast
       ELSE /\ toast' = "Sin stock disponible"
            /\ UNCHANGED items
    /\ UNCHANGED <<customerId, discount, discountType, catalogVars, organizeVars, checkoutVars>>
    /\ UNCHANGED otherPages

TileClick(p) ==
    /\ NoModal
    /\ ~loading
    /\ products[p] # NotListed
    /\ StockOf(p) # 0
    /\ IF TileCanAdd(p)
       THEN /\ items' = addItem(items, p, SalePrice(p))
            /\ UNCHANGED toast
       ELSE /\ toast' = "Sin stock disponible"
            /\ UNCHANGED items
    /\ UNCHANGED <<customerId, discount, discountType, catalogVars, organizeVars, checkoutVars>>
    /\ UNCHANGED otherPages

CartIncrement(p) ==
    /\ NoModal
    /\ HasLine(items, p)
    /\ IF canIncrement(p)
       THEN /\ items' = incrementQuantity(items, p)
            /\ UNCHANGED toast
       ELSE /\ toast' = "Stock maximo alcanzado"
            /\ UNCHANGED items
    /\ UNCHANGED <<customerId, discount, discountType, catalogVars, organizeVars, checkoutVars>>
    /\ UNCHANGED otherPages

CartDecrementClearsAtOne(p) ==
    /\ NoModal
    /\ HasLine(items, p)
    /\ items' = IF QuantityOf(items, p) = 1 THEN <<>> ELSE decrementQuantity(items, p)
    /\ UNCHANGED <<customerId, discount, discountType, catalogVars, organizeVars, toast, checkoutVars>>
    /\ UNCHANGED otherPages

CartDecrement(p) ==
    /\ NoModal
    /\ HasLine(items, p)
    /\ items' = decrementQuantity(items, p)
    /\ UNCHANGED <<customerId, discount, discountType, catalogVars, organizeVars, toast, checkoutVars>>
    /\ UNCHANGED otherPages

CartRemove(p) ==
    /\ NoModal
    /\ HasLine(items, p)
    /\ items' = removeItem(items, p)
    /\ UNCHANGED <<customerId, discount, discountType, catalogVars, organizeVars, toast, checkoutVars>>
    /\ UNCHANGED otherPages

\* clearCart: lines emptied, discount reset, customer kept
ClearCartReducer ==
    /\ items' = <<>>
    /\ discount' = 0
    /\ discountType' = "percent"
    /\ UNCHANGED customerId

ClearCartClick ==
    /\ NoModal
    /\ items # <<>>
    /\ ClearCartReducer
    /\ UNCHANGED <<catalogVars, organizeVars, toast, checkoutVars>>
    /\ UNCHANGED otherPages

CancelSale ==
    /\ NoModal
    /\ items # <<>>
    /\ ClearCartReducer
    /\ toast' = "Venta cancelada"
    /\ UNCHANGED <<catalogVars, organizeVars, checkoutVars>>
    /\ UNCHANGED otherPages

selectCustomer(c) ==
    /\ route = "pos"
    /\ NoModal
    /\ customerId' = c
    /\ UNCHANGED <<items, discount, discountType, catalogVars, organizeVars, toast, checkoutVars>>
    /\ UNCHANGED otherPages

DismissToast ==
    /\ toast # NoToast
    /\ toast' = NoToast
    /\ UNCHANGED <<cartVars, catalogVars, organizeVars, checkoutVars>>
    /\ UNCHANGED otherPages

\* ------------------------------------------------- category organisation
handleStartOrganizeCategories ==
    /\ ~isOrganizingCategories
    /\ isOrganizingCategories' = TRUE
    /\ draftCategoryOrder' = <<categories>>
    /\ UNCHANGED <<cartVars, catalogVars, reorderPending, toast, checkoutVars>>
    /\ UNCHANGED otherPages

handleCancelOrganizeCategories ==
    /\ isOrganizingCategories
    /\ isOrganizingCategories' = FALSE
    /\ draftCategoryOrder' = NoDraft
    /\ UNCHANGED <<cartVars, catalogVars, reorderPending, toast, checkoutVars>>
    /\ UNCHANGED otherPages

handleAcceptOrganizeCategories ==
    /\ isOrganizingCategories
    /\ IF draftCategoryOrder = NoDraft \/ draftCategoryOrder[1] = <<>>
       THEN /\ isOrganizingCategories' = FALSE
            /\ draftCategoryOrder' = NoDraft
            /\ UNCHANGED reorderPending
       ELSE /\ reorderPending < MaxPending
            /\ reorderPending' = reorderPending + 1
            /\ UNCHANGED <<isOrganizingCategories, draftCategoryOrder>>
    /\ UNCHANGED <<cartVars, catalogVars, toast, checkoutVars>>
    /\ UNCHANGED otherPages

ReorderOk ==
    /\ reorderPending > 0
    /\ fetchDataPending < MaxPending
    /\ reorderPending' = reorderPending - 1
    /\ toast' = "Orden de categorias guardado"
    /\ isOrganizingCategories' = FALSE
    /\ draftCategoryOrder' = NoDraft
    /\ loading' = TRUE
    /\ fetchDataPending' = fetchDataPending + 1
    /\ UNCHANGED <<cartVars, products, categories, checkoutVars>>
    /\ UNCHANGED otherPages

ReorderFail ==
    /\ reorderPending > 0
    /\ reorderPending' = reorderPending - 1
    /\ toast' = "No se pudo guardar el orden de categorias"
    /\ UNCHANGED <<cartVars, catalogVars, isOrganizingCategories, draftCategoryOrder, checkoutVars>>
    /\ UNCHANGED otherPages

\* ----------------------------------------------------------- fetchTables
\* tableService.getAll answers with the tables as the service holds them; the
\* page keeps the active ones
FetchTablesOk ==
    /\ fetchTablesPending > 0
    /\ tables' = [t \in Tables |-> IF srvTables[t] = Inactive THEN Unlisted ELSE srvTables[t]]
    /\ fetchTablesPending' = fetchTablesPending - 1
    /\ UNCHANGED <<cartVars, catalogVars, organizeVars, toast, selectedTableId, srvTables, payVars>>
    /\ UNCHANGED otherPages

FetchTablesFail ==
    /\ fetchTablesPending > 0
    /\ fetchTablesPending' = fetchTablesPending - 1
    /\ UNCHANGED <<cartVars, catalogVars, organizeVars, toast, tables, selectedTableId, srvTables, payVars>>
    /\ UNCHANGED otherPages

\* another terminal, or an administrator, changes a table at the service
OtherTerminal(t, st) ==
    /\ route = "pos"
    /\ srvTables[t] # st
    /\ srvTables' = [srvTables EXCEPT ![t] = st]
    /\ UNCHANGED <<cartVars, catalogVars, organizeVars, toast, tables, fetchTablesPending,
                   selectedTableId, payVars>>
    /\ UNCHANGED otherPages

\* -------------------------------------------------------- table selector
SelectTable(t) ==
    /\ NoModal
    /\ tables[t] \in {"DISPONIBLE", "OCUPADA"}
    /\ selectedTableId' = t
    /\ UNCHANGED <<cartVars, catalogVars, organizeVars, toast, tables, fetchTablesPending,
                   srvTables, payVars>>
    /\ UNCHANGED otherPages

SelectNoTable ==
    /\ NoModal
    /\ \E t \in Tables : tables[t] # Unlisted
    /\ selectedTableId' = Null
    /\ UNCHANGED <<cartVars, catalogVars, organizeVars, toast, tables, fetchTablesPending,
                   srvTables, payVars>>
    /\ UNCHANGED otherPages

\* --------------------------------------------------------- payment modal
parseFloat(text) == IF text = EmptyText THEN NaN ELSE text

\* a < b in JavaScript: false as soon as one side is NaN
JsLess(a, b) == a # NaN /\ b # NaN /\ a < b

PayButton(m) ==
    /\ NoModal
    /\ items # <<>>
    /\ paymentMethod' = m
    /\ amountReceived' = Totals.total
    /\ showPaymentModal' = TRUE
    /\ UNCHANGED <<cartVars, catalogVars, organizeVars, toast, tableVars, processing, pc,
                   calls, resultId, completedInvoice, showInvoiceConfirmModal>>
    /\ UNCHANGED otherPages

\* typing in the "Monto recibido" field, shown for cash only
SetAmountReceived(text) ==
    /\ showPaymentModal
    /\ paymentMethod = "EFECTIVO"
    /\ amountReceived' = text
    /\ UNCHANGED <<cartVars, catalogVars, organizeVars, toast, tableVars, showPaymentModal,
                   paymentMethod, processing, pc, calls, resultId, completedInvoice,
                   showInvoiceConfirmModal>>
    /\ UNCHANGED otherPages

ClosePaymentModal ==
    /\ showPaymentModal
    /\ ~processing
    /\ showPaymentModal' = FALSE
    /\ UNCHANGED <<cartVars, catalogVars, organizeVars, toast, tableVars, paymentMethod,
                   amountReceived, processing, pc, calls, resultId, completedInvoice,
                   showInvoiceConfirmModal>>
    /\ UNCHANGED otherPages

CloseInvoiceModal ==
    /\ showInvoiceConfirmModal
    /\ showInvoiceConfirmModal' = FALSE
    /\ completedInvoice' = Null
    /\ UNCHANGED <<cartVars, catalogVars, organizeVars, toast, tableVars, showPaymentModal,
                   paymentMethod, amountReceived, processing, pc, calls, resultId>>
    /\ UNCHANGED otherPages

\* the "Confirmar Venta" button is disabled
ConfirmDisabled ==
    processing \/ (paymentMethod = "EFECTIVO" /\ JsLess(parseFloat(amountReceived), Totals.total))

\* ----------------------------------------------------- handleConfirmSale
\* the request bodies
LinesAtCatalogPrice(its) ==
    [i \in 1..Len(its) |->
        [productId |-> its[i].id, quantity |-> its[i].quantity, unitPrice |-> SalePrice(its[i].id)]]

Lines(its) ==
    [i \in 1..Len(its) |->
        [productId |-> its[i].id, quantity |-> its[i].quantity, unitPrice |-> its[i].price]]

DiscountPercent == IF discountType = "percent" THEN discount ELSE 0

OpenTableReq ==
    [op |-> "openTable", table |-> selectedTableId, guestCount |-> 1, customerId |-> customerId]

AddItemsReq ==
    [op |-> "addItems", table |-> selectedTableId, items |-> Lines(items)]

PayTableReq ==
    [op |-> "payTable", table |-> selectedTableId, paymentMethod |-> paymentMethod,
     amountReceived |-> parseFloat(amountReceived), discountPercent |-> DiscountPercent]

CreateSaleReqNoCustomer ==
    [op |-> "createSale", customerId |-> Null, paymentMethod |-> paymentMethod,
     discountPercent |-> DiscountPercent, amountReceived |-> parseFloat(amountReceived),
     details |-> Lines(items)]

CreateSaleReq ==
    [op |-> "createSale", customerId |-> customerId, paymentMethod |-> paymentMethod,
     discountPercent |-> DiscountPercent, amountReceived |-> parseFloat(amountReceived),
     details |-> Lines(items)]

GetByIdReq(id) == [op |-> "getById", id |-> id]
FetchDataReq == [op |-> "fetchData"]
FetchTablesReq == [op |-> "fetchTables"]

\* tables.find(t => t.id === selectedTableId) || null, as its status
SelectedTableStatus ==
    IF selectedTableId = Null THEN Unlisted ELSE tables[selectedTableId]

FirstStepAlwaysOpens ==
    IF selectedTableId # Null /\ SelectedTableStatus \in {"DISPONIBLE", "OCUPADA"} THEN "openTable"
    ELSE "createSale"

\* the branch taken: the first request and the await the handler stops at
FirstStep ==
    IF selectedTableId # Null /\ SelectedTableStatus = "DISPONIBLE" THEN "openTable"
    ELSE IF selectedTableId # Null /\ SelectedTableStatus = "OCUPADA" THEN "addItems"
    ELSE "createSale"

FirstReq(step) ==
    IF step = "openTable" THEN OpenTableReq
    ELSE IF step = "addItems" THEN AddItemsReq
    ELSE CreateSaleReq

\* a click on "Confirmar Venta": runs the handler up to its first await
handleConfirmSale ==
    /\ showPaymentModal
    /\ ~ConfirmDisabled
    /\ processing' = TRUE
    /\ pc' = FirstStep
    /\ calls' = <<FirstReq(FirstStep)>>
    /\ resultId' = Null
    /\ UNCHANGED <<cartVars, catalogVars, organizeVars, toast, tableVars, showPaymentModal,
                   paymentMethod, amountReceived, completedInvoice, showInvoiceConfirmModal>>
    /\ UNCHANGED otherPages

StepFailClosesModal(step) ==
    /\ pc = step
    /\ toast' = "Error al procesar la venta"
    /\ processing' = FALSE
    /\ pc' = "idle"
    /\ showPaymentModal' = FALSE
    /\ UNCHANGED <<cartVars, catalogVars, organizeVars, tableVars,
                   paymentMethod, amountReceived, calls, resultId, completedInvoice,
                   showInvoiceConfirmModal>>
    /\ UNCHANGED otherPages

\* catch + finally: the error toast, processing lowered, nothing else touched
StepFail(step) ==
    /\ pc = step
    /\ toast' = "Error al procesar la venta"
    /\ processing' = FALSE
    /\ pc' = "idle"
    /\ UNCHANGED <<cartVars, catalogVars, organizeVars, tableVars, showPaymentModal,
                   paymentMethod, amountReceived, calls, resultId, completedInvoice,
                   showInvoiceConfirmModal>>
    /\ UNCHANGED otherPages

OpenTableOkSkipsAddItems ==
    /\ pc = "openTable"
    /\ srvTables[selectedTableId] = "DISPONIBLE"
    /\ srvTables' = [srvTables EXCEPT ![selectedTableId] = "OCUPADA"]
    /\ calls' = Append(calls, PayTableReq)
    /\ pc' = "payTable"
    /\ UNCHANGED <<cartVars, catalogVars, organizeVars, toast, tables, fetchTablesPending,
                   selectedTableId, showPaymentModal, paymentMethod, amountReceived,
                   processing, resultId, completedInvoice, showInvoiceConfirmModal>>
    /\ UNCHANGED otherPages

OpenTableOk ==
    /\ pc = "openTable"
    /\ srvTables[selectedTableId] = "DISPONIBLE"
    /\ srvTables' = [srvTables EXCEPT ![selectedTableId] = "OCUPADA"]
    /\ calls' = Append(calls, AddItemsReq)
    /\ pc' = "addItems"
    /\ UNCHANGED <<cartVars, catalogVars, organizeVars, toast, tables, fetchTablesPending,
                   selectedTableId, showPaymentModal, paymentMethod, amountReceived,
                   processing, resultId, completedInvoice, showInvoiceConfirmModal>>
    /\ UNCHANGED otherPages

AddItemsOk ==
    /\ pc = "addItems"
    /\ srvTables[selectedTableId] = "OCUPADA"
    /\ calls' = Append(calls, PayTableReq)
    /\ pc' = "payTable"
    /\ UNCHANGED <<cartVars, catalogVars, organizeVars, toast, tableVars, showPaymentModal,
                   paymentMethod, amountReceived, processing, resultId, completedInvoice,
                   showInvoiceConfirmModal>>
    /\ UNCHANGED otherPages

PayTableOk ==
    /\ pc = "payTable"
    /\ srvTables[selectedTableId] = "OCUPADA"
    /\ srvTables' = [srvTables EXCEPT ![selectedTableId] = "DISPONIBLE"]
    /\ \E id \in InvoiceIds :
          /\ resultId' = id
          /\ calls' = Append(calls, GetByIdReq(id))
    /\ pc' = "getByIdTable"
    /\ UNCHANGED <<cartVars, catalogVars, organizeVars, toast, tables, fetchTablesPending,
                   selectedTableId, showPaymentModal, paymentMethod, amountReceived,
                   processing, completedInvoice, showInvoiceConfirmModal>>
    /\ UNCHANGED otherPages

CreateSaleOk ==
    /\ pc = "createSale"
    /\ \E id \in InvoiceIds :
          /\ resultId' = id
          /\ calls' = Append(calls, GetByIdReq(id))
    /\ pc' = "getByIdSale"
    /\ UNCHANGED <<cartVars, catalogVars, organizeVars, toast, tableVars, showPaymentModal,
                   paymentMethod, amountReceived, processing, completedInvoice,
                   showInvoiceConfirmModal>>
    /\ UNCHANGED otherPages

GetByIdTableOkKeepsTable ==
    /\ pc = "getByIdTable"
    /\ fetchDataPending < MaxPending
    /\ fetchTablesPending < MaxPending
    /\ completedInvoice' = resultId
    /\ ClearCartReducer
    /\ showPaymentModal' = FALSE
    /\ showInvoiceConfirmModal' = TRUE
    /\ loading' = TRUE
    /\ fetchDataPending' = fetchDataPending + 1
    /\ fetchTablesPending' = fetchTablesPending + 1
    /\ calls' = calls \o <<FetchDataReq, FetchTablesReq>>
    /\ processing' = FALSE
    /\ pc' = "idle"
    /\ UNCHANGED <<products, categories, organizeVars, toast, tables, srvTables,
                   selectedTableId, paymentMethod, amountReceived, resultId>>
    /\ UNCHANGED otherPages

\* the tail of the two table branches
GetByIdTableOk ==
    /\ pc = "getByIdTable"
    /\ fetchDataPending < MaxPending
    /\ fetchTablesPending < MaxPending
    /\ completedInvoice' = resultId
    /\ ClearCartReducer
    /\ selectedTableId' = Null
    /\ showPaymentModal' = FALSE
    /\ showInvoiceConfirmModal' = TRUE
    /\ loading' = TRUE
    /\ fetchDataPending' = fetchDataPending + 1
    /\ fetchTablesPending' = fetchTablesPending + 1
    /\ calls' = calls \o <<FetchDataReq, FetchTablesReq>>
    /\ processing' = FALSE
    /\ pc' = "idle"
    /\ UNCHANGED <<products, categories, organizeVars, toast, tables, srvTables,
                   paymentMethod, amountReceived, resultId>>
    /\ UNCHANGED otherPages

\* the tail of the direct sale
GetByIdSaleOk ==
    /\ pc = "getByIdSale"
    /\ fetchDataPending < MaxPending
    /\ completedInvoice' = resultId
    /\ ClearCartReducer
    /\ showPaymentModal' = FALSE
    /\ showInvoiceConfirmModal' = TRUE
    /\ loading' = TRUE
    /\ fetchDataPending' = fetchDataPending + 1
    /\ calls' = Append(calls, FetchDataReq)
    /\ processing' = FALSE
    /\ pc' = "idle"
    /\ UNCHANGED <<products, categories, organizeVars, toast, tableVars,
                   paymentMethod, amountReceived, resultId>>
    /\ UNCHANGED otherPages

Steps == {"openTable", "addItems", "payTable", "createSale", "getByIdTable", "getByIdSale"}

\* ------------------------------------------------------------ Tables view
\* the user can reach the page under the modals
PageOpen == mounted /\ ~viewLoading /\ viewModal = "none"
\* the detail panel shows the order of an occupied table
OrderPanel == selectedTable.status = "OCUPADA" /\ activeSession # NoSession

\* a setState of a handler that outlives the view changes nothing
Kept(new, old) == IF mounted THEN new ELSE old

\* ------------------------------------------------------------ fetchTables
\* the init effect: await Promise.all([fetchTables(), fetchProducts()]), then
\* setLoading(false); fetchTables swallows its own failure
InitDone(ok) ==
    /\ viewLoading
    /\ viewLoading' = Kept(FALSE, viewLoading)
    /\ viewTables' = Kept(IF ok THEN srvFloor ELSE viewTables, viewTables)
    /\ UNCHANGED <<aroundView,
                   viewTimer, selectedTable, activeSession, viewModal, viewForm,
                   viewProcessing, viewReq, viewAsync, srvFloor>>

\* the interval callback, every 30 s while the timer is armed
PollTick ==
    /\ interval
    /\ viewFetchPending < MaxPending
    /\ viewFetchPending' = viewFetchPending + 1
    /\ UNCHANGED <<aroundView, viewTimer, viewLoading, viewTables, selectedTable,
                   activeSession, viewModal, viewForm, viewProcessing, viewReq, removePending,
                   sessionPending, srvFloor>>

\* a fetchTables() that no handler awaits settles
FetchTablesDone(ok) ==
    /\ viewFetchPending > 0
    /\ viewFetchPending' = viewFetchPending - 1
    /\ viewTables' = Kept(IF ok THEN srvFloor ELSE viewTables, viewTables)
    /\ UNCHANGED <<aroundView,
                   viewTimer, viewLoading, selectedTable, activeSession, viewModal,
                   viewForm, viewProcessing, viewReq, removePending, sessionPending, srvFloor>>

\* the state of the component goes with it; its requests stay in flight
Unmounted ==
    /\ mounted' = FALSE
    /\ viewLoading' = FALSE
    /\ viewTables' = [t \in DOMAIN srvFloor |-> Entry(Unlisted, {})]
    /\ selectedTable' = NoTable
    /\ activeSession' = NoSession
    /\ viewModal' = "none"
    /\ viewPaymentMethod' = "EFECTIVO"
    /\ viewAmountReceived' = EmptyText
    /\ viewProcessing' = FALSE
    /\ itemsToAdd' = 0
    /\ UNCHANGED <<aroundView, viewReq, viewAsync, srvFloor>>

UnmountKeepsTimer ==
    /\ mounted
    /\ Unmounted
    /\ UNCHANGED interval

\* the view unmounts: the polling effect's cleanup clears the interval
Unmount ==
    /\ mounted
    /\ Unmounted
    /\ interval' = FALSE

\* -------------------------------------------------------- table selection
handleSelectTable(t) ==
    /\ PageOpen
    /\ viewTables[t].status # Unlisted
    /\ viewTables[t].status = "OCUPADA" => Cardinality(sessionPending) < MaxPending
    /\ selectedTable' = [id |-> t, status |-> viewTables[t].status]
    /\ IF viewTables[t].status = "OCUPADA"
       THEN /\ sessionPending' = sessionPending \cup {[id |-> t, details |-> viewTables[t].details]}
            /\ UNCHANGED activeSession
       ELSE /\ activeSession' = NoSession
            /\ UNCHANGED sessionPending
    /\ UNCHANGED <<aroundView, viewTimer, viewLoading, viewTables, viewModal, viewForm,
                   viewProcessing, viewReq, removePending, viewFetchPending,
                   srvFloor>>

\* getActiveSession(table.id) settles: the session the service holds, or in
\* the catch block the one the clicked table carried (table.activeSession)
GetActiveSessionDone(table, ok) ==
    /\ table \in sessionPending
    /\ ok => Occupied(table.id)
    /\ sessionPending' = sessionPending \ {table}
    /\ activeSession' = Kept(IF ok THEN Session(table.id, srvFloor[table.id].details)
                                 ELSE Session(table.id, table.details), activeSession)
    /\ UNCHANGED <<aroundView,
                   viewTimer, viewLoading, viewTables, selectedTable, viewModal,
                   viewForm, viewProcessing, viewReq, removePending,
                   viewFetchPending, srvFloor>>

\* the X of the detail panel
ClosePanel ==
    /\ PageOpen
    /\ selectedTable # NoTable
    /\ selectedTable' = NoTable
    /\ activeSession' = NoSession
    /\ UNCHANGED <<aroundView, viewTimer, viewLoading, viewTables, viewModal, viewForm,
                   viewProcessing, viewReq, viewAsync, srvFloor>>

\* the Cancelar / X button of whichever modal is shown
CloseModal ==
    /\ mounted
    /\ viewModal # "none"
    /\ viewModal' = "none"
    /\ UNCHANGED <<aroundView, viewTimer, viewLoading, viewTables, selectedTable,
                   activeSession, viewForm, viewProcessing, viewReq, viewAsync, srvFloor>>

\* ------------------------------------------------------------ open a table
OpenOpenModal ==
    /\ PageOpen
    /\ selectedTable.status = "DISPONIBLE"
    /\ viewModal' = "showOpenModal"
    /\ UNCHANGED <<aroundView, viewTimer, viewLoading, viewTables, selectedTable,
                   activeSession, viewForm, viewProcessing, viewReq, viewAsync, srvFloor>>

\* a click on a confirm button that is not disabled: the handler runs up to
\* its first await, holding the selectedTable it was rendered with
Submit(modal, req) ==
    /\ mounted
    /\ viewModal = modal
    /\ ~viewProcessing
    /\ viewProcessing' = TRUE
    /\ viewReq' = req
    /\ UNCHANGED <<aroundView, viewTimer, viewLoading, viewTables, selectedTable,
                   activeSession, viewModal, viewForm, viewAsync, srvFloor>>

FailedKeepsFlag(op) ==
    /\ viewReq.op = op
    /\ viewReq' = NoReq
    /\ UNCHANGED <<aroundView, viewTimer, viewLoading, viewTables, selectedTable,
                   activeSession, viewModal, viewForm, viewProcessing, viewAsync, srvFloor>>

\* catch + finally of the handler that raised processing
Failed(op) ==
    /\ viewReq.op = op
    /\ viewProcessing' = Kept(FALSE, viewProcessing)
    /\ viewReq' = NoReq
    /\ UNCHANGED <<aroundView,
                   viewTimer, viewLoading, viewTables, selectedTable, activeSession,
                   viewModal, viewForm, viewAsync, srvFloor>>

\* setShow...Modal(false) of one modal leaves another one as it is
Lowered(modal) == IF viewModal = modal THEN "none" ELSE viewModal

\* the handler goes on to its await fetchTables()
AwaitFetchTables == [op |-> "fetchTables", after |-> viewReq.op, table |-> viewReq.table]

handleOpenTable ==
    /\ selectedTable # NoTable
    /\ Submit("showOpenModal", [op |-> "openTable", table |-> selectedTable.id, guestCount |-> 1])

OpenTableDone(ok) ==
    /\ viewReq.op = "openTable"
    /\ IF ok
       THEN /\ srvFloor[viewReq.table].status = "DISPONIBLE"
            /\ srvFloor' = [srvFloor EXCEPT ![viewReq.table] = Entry("OCUPADA", {})]
            /\ activeSession' = Kept(Session(viewReq.table, {}), activeSession)
            /\ viewModal' = Kept(Lowered("showOpenModal"), viewModal)
            /\ viewReq' = AwaitFetchTables
            /\ UNCHANGED <<aroundView,
                           viewTimer, viewLoading, viewTables, selectedTable, viewForm,
                           viewProcessing, viewAsync>>
       ELSE Failed("openTable")

\* the fetchTables() a handler awaits settles, and the handler goes on: to
\* getById in handleOpenTable, to its finally block in the others
HandlerFetchDone(ok) ==
    /\ viewReq.op = "fetchTables"
    /\ viewTables' = Kept(IF ok THEN srvFloor ELSE viewTables, viewTables)
    /\ IF viewReq.after = "openTable"
       THEN /\ viewReq' = [op |-> "getById", table |-> viewReq.table]
            /\ UNCHANGED viewProcessing
       ELSE /\ viewReq' = NoReq
            /\ viewProcessing' = Kept(FALSE, viewProcessing)
    /\ UNCHANGED <<aroundView,
                   viewTimer, viewLoading, selectedTable, activeSession, viewModal,
                   viewForm, viewAsync, srvFloor>>

\* tableService.getById(selectedTable.id) of handleOpenTable settles
GetByIdDone(ok) ==
    /\ viewReq.op = "getById"
    /\ IF ok
       THEN /\ srvFloor[viewReq.table].status # Unlisted
            /\ selectedTable' =
                  Kept([id |-> viewReq.table, status |-> srvFloor[viewReq.table].status],
                       selectedTable)
            /\ viewProcessing' = Kept(FALSE, viewProcessing)
            /\ viewReq' = NoReq
            /\ UNCHANGED <<aroundView, viewTimer, viewLoading, viewTables, activeSession,
                           viewModal, viewForm, viewAsync, srvFloor>>
       ELSE Failed("getById")

\* ---------------------------------------------------------- create a table
\* the Nueva Mesa button of the header (administrators)
OpenCreateModal ==
    /\ PageOpen
    /\ viewModal' = "showCreateTableModal"
    /\ UNCHANGED <<aroundView, viewTimer, viewLoading, viewTables, selectedTable,
                   activeSession, viewForm, viewProcessing, viewReq, viewAsync, srvFloor>>

\* newTableNumber is what the number field holds at the click; with the
\* field empty the button is disabled and the handler returns at once
handleCreateTable(newTableNumber) ==
    /\ newTableNumber # EmptyText
    /\ Submit("showCreateTableModal",
              [op |-> "create", table |-> Null, tableNumber |-> newTableNumber])

\* the table created is a further one: the entries of the floor the view
\* already lists stay as they are
CreateTableDone(ok) ==
    /\ viewReq.op = "create"
    /\ IF ok
       THEN /\ viewModal' = Kept(Lowered("showCreateTableModal"), viewModal)
            /\ viewReq' = AwaitFetchTables
            /\ UNCHANGED <<aroundView, viewTimer, viewLoading, viewTables, selectedTable,
                           activeSession, viewForm, viewProcessing, viewAsync, srvFloor>>
       ELSE Failed("create")

\* --------------------------------------------------------------- add items
OpenAddItemsModal ==
    /\ PageOpen
    /\ OrderPanel
    /\ viewModal' = "showAddItemsModal"
    /\ itemsToAdd' = 0
    /\ UNCHANGED <<aroundView, viewTimer, viewLoading, viewTables, selectedTable,
                   activeSession, viewPaymentMethod, viewAmountReceived, viewProcessing, viewReq,
                   viewAsync, srvFloor>>

\* a first click on a product of the add-items modal appends a line
addProductToList ==
    /\ mounted
    /\ viewModal = "showAddItemsModal"
    /\ itemsToAdd < MaxItemsToAdd
    /\ itemsToAdd' = itemsToAdd + 1
    /\ UNCHANGED <<aroundView, viewTimer, viewLoading, viewTables, selectedTable,
                   activeSession, viewModal, viewPaymentMethod, viewAmountReceived,
                   viewProcessing, viewReq, viewAsync, srvFloor>>

handleAddItems ==
    /\ selectedTable # NoTable
    /\ itemsToAdd # 0
    /\ Submit("showAddItemsModal",
              [op |-> "addItems", table |-> selectedTable.id, items |-> itemsToAdd])

\* the service appends the lines as new details and answers with the session
AddItemsDone(ok) ==
    /\ viewReq.op = "addItems"
    /\ IF ok
       THEN /\ Occupied(viewReq.table)
            /\ \E d \in DetailIds \ srvFloor[viewReq.table].details :
                  srvFloor' = [srvFloor EXCEPT ![viewReq.table].details = @ \cup {d}]
            /\ activeSession' = Kept(Session(viewReq.table, srvFloor'[viewReq.table].details),
                                      activeSession)
            /\ viewModal' = Kept(Lowered("showAddItemsModal"), viewModal)
            /\ itemsToAdd' = Kept(0, itemsToAdd)
            /\ viewReq' = AwaitFetchTables
            /\ UNCHANGED <<aroundView, viewTimer, viewLoading, viewTables, selectedTable,
                           viewPaymentMethod, viewAmountReceived, viewProcessing, viewAsync>>
       ELSE Failed("addItems")

\* -------------------------------------------------------------- remove item
\* the trash button of a detail line: no flag is raised
handleRemoveItem(d) ==
    /\ PageOpen
    /\ OrderPanel
    /\ d \in activeSession.details
    /\ Len(removePending) < MaxRemoves
    /\ removePending' = Append(removePending, [table |-> selectedTable.id, detail |-> d])
    /\ UNCHANGED <<aroundView, viewTimer, viewLoading, viewTables, selectedTable,
                   activeSession, viewModal, viewForm, viewProcessing, viewReq, sessionPending,
                   viewFetchPending, srvFloor>>

Without(s, i) == [k \in 1..(Len(s) - 1) |-> IF k < i THEN s[k] ELSE s[k + 1]]

RemoveItemDoneMerges(i, ok) ==
    /\ i \in 1..Len(removePending)
    /\ removePending' = Without(removePending, i)
    /\ LET r == removePending[i]
       IN  IF ok
           THEN /\ Occupied(r.table)
                /\ r.detail \in srvFloor[r.table].details
                /\ viewFetchPending < MaxPending
                /\ srvFloor' = [srvFloor EXCEPT ![r.table].details = @ \ {r.detail}]
                /\ activeSession' =
                      Kept([activeSession EXCEPT !.details = srvFloor'[r.table].details],
                           activeSession)
                /\ viewFetchPending' = viewFetchPending + 1
           ELSE UNCHANGED <<srvFloor, activeSession, viewFetchPending>>
    /\ UNCHANGED <<aroundView,
                   viewTimer, viewLoading, viewTables, selectedTable, viewModal,
                   viewForm, viewProcessing, viewReq, sessionPending>>

\* the i-th removeItem in flight settles; on success the handler goes on to
\* fetchTables(), which nothing awaits any more
RemoveItemDone(i, ok) ==
    /\ i \in 1..Len(removePending)
    /\ removePending' = Without(removePending, i)
    /\ LET r == removePending[i]
       IN  IF ok
           THEN /\ Occupied(r.table)
                /\ r.detail \in srvFloor[r.table].details
                /\ viewFetchPending < MaxPending
                /\ srvFloor' = [srvFloor EXCEPT ![r.table].details = @ \ {r.detail}]
                /\ activeSession' =
                      Kept(Session(r.table, srvFloor'[r.table].details), activeSession)
                /\ viewFetchPending' = viewFetchPending + 1
           ELSE UNCHANGED <<srvFloor, activeSession, viewFetchPending>>
    /\ UNCHANGED <<aroundView,
                   viewTimer, viewLoading, viewTables, selectedTable, viewModal,
                   viewForm, viewProcessing, viewReq, sessionPending>>

\* --------------------------------------------------------------------- pay
\* "Cobrar Mesa", disabled while the session has no detail
OpenPayModal ==
    /\ PageOpen
    /\ OrderPanel
    /\ activeSession.details # {}
    /\ viewModal' = "showPayModal"
    /\ viewAmountReceived' = activeSession.total
    /\ UNCHANGED <<aroundView, viewTimer, viewLoading, viewTables, selectedTable,
                   activeSession, viewPaymentMethod, itemsToAdd, viewProcessing, viewReq,
                   viewAsync, srvFloor>>

\* the Efectivo and Tarjeta buttons of the pay modal
setPaymentMethod(m) ==
    /\ mounted
    /\ viewModal = "showPayModal"
    /\ viewPaymentMethod' = m
    /\ viewAmountReceived' = IF m = "TARJETA_CREDITO" THEN activeSession.total
                             ELSE viewAmountReceived
    /\ UNCHANGED <<aroundView, viewTimer, viewLoading, viewTables, selectedTable,
                   activeSession, viewModal, itemsToAdd, viewProcessing, viewReq, viewAsync,
                   srvFloor>>

\* typing in "Monto recibido", shown for cash only
setAmountReceived(text) ==
    /\ mounted
    /\ viewModal = "showPayModal"
    /\ viewPaymentMethod = "EFECTIVO"
    /\ viewAmountReceived' = text
    /\ UNCHANGED <<aroundView, viewTimer, viewLoading, viewTables, selectedTable,
                   activeSession, viewModal, viewPaymentMethod, itemsToAdd, viewProcessing,
                   viewReq, viewAsync, srvFloor>>

\* the texts tried in the field: none, or more than the total shown
ViewAmountTexts == {EmptyText, activeSession.total + 1000}

\* "Confirmar Pago" is disabled
PayDisabled ==
    viewProcessing \/ JsLess(parseFloat(viewAmountReceived), activeSession.total)

handlePayTable ==
    /\ ~PayDisabled
    /\ selectedTable # NoTable
    /\ activeSession # NoSession
    /\ Submit("showPayModal",
              [op |-> "payTable", table |-> selectedTable.id,
               paymentMethod |-> viewPaymentMethod,
               amountReceived |-> parseFloat(viewAmountReceived)])

\* the response of payTable is not read
PayTableDone(ok) ==
    /\ viewReq.op = "payTable"
    /\ IF ok
       THEN /\ Occupied(viewReq.table)
            /\ srvFloor' = [srvFloor EXCEPT ![viewReq.table] = Entry("DISPONIBLE", {})]
            /\ viewModal' = Kept(Lowered("showPayModal"), viewModal)
            /\ viewAmountReceived' = Kept(EmptyText, viewAmountReceived)
            /\ selectedTable' = Kept(NoTable, selectedTable)
            /\ activeSession' = Kept(NoSession, activeSession)
            /\ viewReq' = AwaitFetchTables
            /\ UNCHANGED <<aroundView,
                           viewTimer, viewLoading, viewTables, viewPaymentMethod,
                           itemsToAdd, viewProcessing, viewAsync>>
       ELSE Failed("payTable")

\* ---------------------------------------------------------- invoices page
\* fetchInvoices settles: the list is replaced by the one the service holds,
\* or kept when the request failed; loading is lowered either way
FetchInvoicesDone(ok) ==
    /\ invFetchPending > 0
    /\ invFetchPending' = invFetchPending - 1
    /\ invoices' = IF ok THEN srvInvoices ELSE invoices
    /\ invLoading' = FALSE
    /\ UNCHANGED <<aroundInvoices, selectedInvoice, showVoidModal, voidReason,
                   invProcessing, activeTab, voidPending, srvInvoices>>

\* the tabs lie under the modal's overlay
setActiveTab(tab) ==
    /\ route = "invoices"
    /\ ~showVoidModal
    /\ activeTab' = tab
    /\ UNCHANGED <<aroundInvoices, invLoading, invoices, selectedInvoice, showVoidModal,
                   voidReason, invProcessing, voidPending, invFetchPending, srvInvoices>>

\* the void button of a row: the table is drawn when loading is down, the
\* row is in the current partition and its status is not ANULADA
openVoidModal(i) ==
    /\ ~invLoading
    /\ ~showVoidModal
    /\ activeTab = "active"
    /\ i \in activeInvoices
    /\ selectedInvoice' = i
    /\ voidReason' = ""
    /\ showVoidModal' = TRUE
    /\ UNCHANGED <<aroundInvoices, invLoading, invoices, invProcessing, activeTab,
                   voidPending, invFetchPending, srvInvoices>>

setVoidReason(text) ==
    /\ showVoidModal
    /\ selectedInvoice # Null
    /\ voidReason' = text
    /\ UNCHANGED <<aroundInvoices, invLoading, invoices, selectedInvoice, showVoidModal,
                   invProcessing, activeTab, voidPending, invFetchPending, srvInvoices>>

\* the X and Cancelar buttons of the void modal
CloseVoidModal ==
    /\ showVoidModal
    /\ selectedInvoice # Null
    /\ showVoidModal' = FALSE
    /\ UNCHANGED <<aroundInvoices, invLoading, invoices, selectedInvoice, voidReason,
                   invProcessing, activeTab, voidPending, invFetchPending, srvInvoices>>

\* handleVoid up to its await; with no invoice or a blank reason it returns
\* at once
handleVoid ==
    /\ selectedInvoice # Null
    /\ Trim(voidReason) # ""
    /\ invProcessing' = TRUE
    /\ voidPending' = voidPending \cup {[id |-> selectedInvoice, reason |-> voidReason]}
    /\ UNCHANGED <<aroundInvoices, invLoading, invoices, selectedInvoice, showVoidModal,
                   voidReason, activeTab, invFetchPending, srvInvoices>>

\* the Anular button: disabled={!voidReason.trim() || processing}
VoidClick ==
    /\ showVoidModal
    /\ ~(Trim(voidReason) = "" \/ invProcessing)
    /\ handleVoid

\* handleVoid after its await.  The service voids a COMPLETADA invoice and
\* rejects the void of an invoice it already holds ANULADA.
VoidDone(r, ok) ==
    /\ r \in voidPending
    /\ voidPending' = voidPending \ {r}
    /\ invProcessing' = FALSE
    /\ IF ok
          THEN /\ srvInvoices[r.id] = "COMPLETADA"
               /\ invFetchPending < MaxPending
               /\ srvInvoices' = [srvInvoices EXCEPT ![r.id] = "ANULADA"]
               /\ showVoidModal' = FALSE
               /\ invLoading' = TRUE
               /\ invFetchPending' = invFetchPending + 1
          ELSE UNCHANGED <<srvInvoices, showVoidModal, invLoading, invFetchPending>>
    /\ UNCHANGED <<aroundInvoices, invoices, selectedInvoice, voidReason, activeTab>>

\* --------------------------------------------------------- inventory page
\* fetchInventory settles: the list is replaced, or kept when it failed
FetchInventoryDone(ok) ==
    /\ inventoryPending > 0
    /\ inventoryPending' = inventoryPending - 1
    /\ inventory' = IF ok THEN srvStock.quantity ELSE inventory
    /\ inventoryLoading' = FALSE
    /\ UNCHANGED <<aroundInventory, adjustModal, adjustQuantity, adjustProcessing,
                   adjustReq, srvStock>>

\* the arrow buttons of the row: the modal holds a copy of the listed item
openAdjustModal(type) ==
    /\ ~inventoryLoading
    /\ inventory # NotListed
    /\ adjustModal = NoAdjust
    /\ adjustModal' = [type |-> type, quantity |-> inventory, productId |-> srvStock.productId]
    /\ adjustQuantity' = EmptyText
    /\ UNCHANGED <<aroundInventory, inventoryLoading, inventory, adjustProcessing,
                   adjustReq, inventoryPending, srvStock>>

setAdjustQuantity(text) ==
    /\ adjustModal # NoAdjust
    /\ adjustQuantity' = text
    /\ UNCHANGED <<aroundInventory, inventoryLoading, inventory, adjustModal,
                   adjustProcessing, adjustReq, inventoryPending, srvStock>>

\* the X and Cancelar buttons of the adjust modal
CloseAdjustModal ==
    /\ adjustModal # NoAdjust
    /\ adjustModal' = NoAdjust
    /\ UNCHANGED <<aroundInventory, inventoryLoading, inventory, adjustQuantity,
                   adjustProcessing, adjustReq, inventoryPending, srvStock>>

\* handleAdjust up to its await, behind its button (disabled={!adjustQuantity
\* || processing}).  The two returns inside the try block lower processing
\* themselves and again in finally.
handleAdjust ==
    /\ adjustModal # NoAdjust
    /\ adjustQuantity # EmptyText
    /\ ~adjustProcessing
    /\ IF \/ adjustQuantity <= 0
          \/ adjustModal.productId = Null
          \/ (adjustModal.type = "remove" /\ adjustQuantity > adjustModal.quantity)
       THEN UNCHANGED <<adjustProcessing, adjustReq>>
       ELSE /\ adjustProcessing' = TRUE
            /\ adjustReq' = [adjustModal EXCEPT !.quantity = adjustQuantity]
    /\ UNCHANGED <<aroundInventory, inventoryLoading, inventory, adjustModal,
                   adjustQuantity, inventoryPending, srvStock>>

\* handleAdjust after its await: on success the modal is closed and
\* fetchInventory() called; finally lowers processing
AdjustDone(ok) ==
    /\ adjustReq # NoAdjust
    /\ adjustReq' = NoAdjust
    /\ adjustProcessing' = FALSE
    /\ IF ok
       THEN /\ inventoryPending < MaxPending
            /\ IF adjustReq.type = "add"
               THEN /\ srvStock.quantity + adjustReq.quantity <= MaxStock + 1
                    /\ srvStock' = [srvStock EXCEPT !.quantity = @ + adjustReq.quantity]
               ELSE /\ adjustReq.quantity <= srvStock.quantity
                    /\ srvStock' = [srvStock EXCEPT !.quantity = @ - adjustReq.quantity]
            /\ adjustModal' = NoAdjust
            /\ inventoryLoading' = TRUE
            /\ inventoryPending' = inventoryPending + 1
       ELSE UNCHANGED <<srvStock, adjustModal, inventoryLoading, inventoryPending>>
    /\ UNCHANGED <<aroundInventory, inventory, adjustQuantity>>

\* ------------------------------------------------------------ useSseEvents
\* connect(), run by a closure that captured enabled = en: it reads the token
\* when it runs, and stores the EventSource it creates in eventSourceRef
connect(s, en) ==
    IF ~en \/ ~s.accessToken
    THEN s
    ELSE LET es == FreshId(s.openSources)
         IN  [s EXCEPT !.eventSourceRef = es, !.openSources = @ \cup {es}]

\* the effect's cleanup: the source the ref names is closed, the timer the
\* other ref names is cleared (a no-op once that timer has fired)
cleanupKeepsTimer(s) ==
    [s EXCEPT !.openSources = @ \ {s.eventSourceRef},
              !.announced = @ \ {s.eventSourceRef}, !.eventSourceRef = Null]

cleanup(s) ==
    [s EXCEPT !.openSources = @ \ {s.eventSourceRef},
              !.announced = @ \ {s.eventSourceRef},
              !.eventSourceRef = Null,
              !.timers = {t \in @ : t.id # s.reconnectTimeoutRef}]

\* the server's 'connected' event on an open EventSource: onConnected?.()
Connected(es) ==
    /\ route = "kitchen"
    /\ es \in sse.openSources \ sse.announced
    /\ sse' = [sse EXCEPT !.announced = @ \cup {es}]
    /\ UNCHANGED <<pages, settings, stored, blob>>

\* es.onerror of an open EventSource (a closed one fires no event)
StreamErrorNoTimer(es) ==
    /\ route = "kitchen"
    /\ es \in sse.openSources
    /\ sse' = [sse EXCEPT !.openSources = @ \ {es}, !.announced = @ \ {es},
                          !.eventSourceRef = Null]
    /\ UNCHANGED <<pages, settings, stored, blob>>

StreamError(es) ==
    /\ route = "kitchen"
    /\ es \in sse.openSources
    /\ Cardinality(sse.timers) < MaxSources
    /\ LET t == FreshId(TimerIds(sse))
       IN  sse' = [sse EXCEPT !.openSources = @ \ {es},
                              !.announced = @ \ {es},
                              !.eventSourceRef = Null,
                              !.reconnectTimeoutRef = t,
                              !.timers = @ \cup {[id |-> t, remaining |-> ReconnectDelay]}]
    /\ UNCHANGED <<pages, settings, stored, blob>>

\* the 5000 ms timer fires: connect() of the closure that set it, which had
\* passed its own test of enabled
TimerFires(t) ==
    /\ route = "kitchen"
    /\ t \in sse.timers
    /\ t.remaining = 0
    /\ Cardinality(sse.openSources) < MaxSources
    /\ LET fired == [sse EXCEPT !.timers = @ \ {t}]
           s == connect(fired, TRUE)
       IN  sse' = IF s.openSources # fired.openSources /\ s.reconnects < MaxReconnects
                  THEN [s EXCEPT !.reconnects = @ + 1]
                  ELSE s
    /\ UNCHANGED <<pages, settings, stored, blob>>

\* a second passes: no timer is overdue, every pending one is a second nearer
Tick ==
    /\ route = "kitchen"
    /\ sse.timers # {}
    /\ \A t \in sse.timers : t.remaining > 0
    /\ sse' = [sse EXCEPT !.timers = {[t EXCEPT !.remaining = @ - 1] : t \in @}]
    /\ UNCHANGED <<pages, settings, stored, blob>>

\* a render with enabled or a handler changed: connect is a new function, so
\* the effect runs its cleanup and then the new connect()
Rerender(en) ==
    /\ route = "kitchen"
    /\ sse.mounted
    /\ Cardinality(sse.openSources) < MaxSources
    /\ sse' = connect([cleanup(sse) EXCEPT !.enabled = en], en)
    /\ UNCHANGED <<pages, settings, stored, blob>>

UnmountHook ==
    /\ route = "kitchen"
    /\ sse.mounted
    /\ sse' = [cleanup(sse) EXCEPT !.mounted = FALSE]
    /\ UNCHANGED <<pages, settings, stored, blob>>

\* the session code stores or removes localStorage 'accessToken'
setAccessToken(present) ==
    /\ route = "kitchen"
    /\ sse.accessToken # present
    /\ sse' = [sse EXCEPT !.accessToken = present]
    /\ UNCHANGED <<pages, settings, stored, blob>>

\* ----------------------------------------------------------- settingsSlice
\* saveToStorage(state): localStorage.setItem either stores the JSON or throws
\* (quota, storage disabled), which the catch only logs
saveToStorage(state, written) ==
    /\ stored' = IF written THEN "json" ELSE stored
    /\ blob' = IF written THEN Saved(state) ELSE blob
    /\ UNCHANGED <<pages, sse>>

setTheme(payload, written) ==
    /\ route = "settings"
    /\ settings' = [settings EXCEPT !.theme = Spread(@, payload)]
    /\ saveToStorage(settings', written)

setCompany(payload, written) ==
    /\ route = "settings"
    /\ settings' = [settings EXCEPT !.company = Spread(@, payload)]
    /\ saveToStorage(settings', written)

setBusinessType(payload, written) ==
    /\ route = "settings"
    /\ settings' = [settings EXCEPT !.businessType = payload]
    /\ saveToStorage(settings', written)

setSettings(payload, written) ==
    /\ route = "settings"
    /\ settings' = Spread(settings, payload)
    /\ saveToStorage(settings', written)

resetTheme(written) ==
    /\ route = "settings"
    /\ settings' = [settings EXCEPT !.theme = defaultState.theme]
    /\ saveToStorage(settings', written)

\* the page is loaded again: the module computes initialState anew
Reload ==
    /\ route = "settings"
    /\ settings' = initialState
    /\ UNCHANGED <<pages, sse, stored, blob>>

\* ------------------------------------------------- dashboard and reports
\* setDateRange on the dashboard: both effects run again, each with its own
\* request for the new range
setDateRange(range) ==
    /\ route = "dashboard"
    /\ dashboard' = [dashboard EXCEPT !.dateRange = range,
                                      !.summaryLoading = TRUE,
                                      !.chartLoading = TRUE,
                                      !.summaryPending = @ \cup {range},
                                      !.chartPending = @ \cup {range}]
    /\ UNCHANGED <<aroundRanges, reportsPage>>

\* getSalesSummary of fetchSummary settles: the figures are set, or the catch
\* block goes on to getTodayStats
SummaryDone(range, ok) ==
    /\ route = "dashboard"
    /\ range \in dashboard.summaryPending
    /\ ~ok => dashboard.todayPending < MaxPending
    /\ dashboard' =
          IF ok
          THEN [dashboard EXCEPT !.summaryPending = @ \ {range},
                                 !.summaryStats = range,
                                 !.summaryLoading = FALSE]
          ELSE [dashboard EXCEPT !.summaryPending = @ \ {range},
                                 !.todayPending = @ + 1]
    /\ UNCHANGED <<aroundRanges, reportsPage>>

\* getTodayStats of the catch block settles; finally lowers the flag
TodayStatsDone(ok) ==
    /\ route = "dashboard"
    /\ dashboard.todayPending > 0
    /\ dashboard' = [dashboard EXCEPT !.todayPending = @ - 1,
                                      !.summaryStats = IF ok THEN "todayStats" ELSE @,
                                      !.summaryLoading = FALSE]
    /\ UNCHANGED <<aroundRanges, reportsPage>>

\* getDailySales of fetchChartData settles
ChartDone(range, ok) ==
    /\ route = "dashboard"
    /\ range \in dashboard.chartPending
    /\ dashboard' = [dashboard EXCEPT !.chartPending = @ \ {range},
                                      !.dailySales = IF ok THEN range ELSE "empty",
                                      !.chartLoading = FALSE]
    /\ UNCHANGED <<aroundRanges, reportsPage>>

\* setDateRange on the reports page: the effect calls fetchReports()
setReportRange(range) ==
    /\ route = "reports"
    /\ reportsPage' = [reportsPage EXCEPT !.dateRange = range,
                                          !.loading = TRUE,
                                          !.pending = @ \cup {range}]
    /\ UNCHANGED <<aroundRanges, dashboard>>

\* the Promise.all of fetchReports settles; a request that failed gives null
ReportsDone(range, ok) ==
    /\ route = "reports"
    /\ range \in reportsPage.pending
    /\ reportsPage' = [reportsPage EXCEPT !.pending = @ \ {range},
                                          !.salesSummary = IF ok THEN range ELSE "null",
                                          !.loading = FALSE]
    /\ UNCHANGED <<aroundRanges, dashboard>>

\* ------------------------------------------------------- specifications
\* The cart page: catalog, cart panel and category organisation.
Next ==
    \/ FetchDataOk
    \/ FetchDataFail
    \/ \E p \in Products : TileClick(p)
    \/ \E p \in Products : CartIncrement(p)
    \/ \E p \in Products : CartDecrement(p)
    \/ \E p \in Products : CartRemove(p)
    \/ ClearCartClick
    \/ CancelSale
    \/ DismissToast
    \/ handleStartOrganizeCategories
    \/ handleCancelOrganizeCategories
    \/ handleAcceptOrganizeCategories
    \/ ReorderOk
    \/ ReorderFail

Spec == Init /\ [][Next]_vars

\* The checkout: the page with its catalog loaded and a cart filled, the table
\* list still being fetched, and the table service in any state.
Line(p, q) == [id |-> p, price |-> SalePrice(p), quantity |-> q]
\* a line added while the catalog listed product 1 at an earlier, lower price
EarlierPriceLine == [id |-> 1, price |-> 3000, quantity |-> 2]
CheckoutCarts == {<<EarlierPriceLine>>, <<Line(2, 1), Line(1, 1)>>}
CheckoutDiscounts == {0, 50}

AmountTexts ==
    {EmptyText, Totals.total, Totals.total + 1000}
        \cup (IF Totals.total > 0 THEN {Totals.total - 1} ELSE {})

InitCheckout ==
    /\ route = "pos"
    /\ PageState
    /\ ViewAbsent
    /\ InvoicesAbsent
    /\ InventoryAbsent
    /\ HooksAbsent
    /\ items \in CheckoutCarts
    /\ customerId \in Customers \cup {Null}
    /\ discount \in CheckoutDiscounts
    /\ discountType \in DiscountTypes
    /\ products = [p \in Products |-> MaxStock]
    /\ loading = FALSE
    /\ fetchDataPending = 0
    /\ fetchTablesPending = 1
    /\ srvTables \in [Tables -> TableStatus \cup {Inactive}]

NextCheckout ==
    \/ FetchTablesOk
    \/ FetchTablesFail
    \/ \E t \in Tables, st \in TableStatus \cup {Inactive} : OtherTerminal(t, st)
    \/ \E t \in Tables : SelectTable(t)
    \/ SelectNoTable
    \/ \E c \in Customers \cup {Null} : selectCustomer(c)
    \/ \E m \in PaymentMethods : PayButton(m)
    \/ \E text \in AmountTexts : SetAmountReceived(text)
    \/ ClosePaymentModal
    \/ CloseInvoiceModal
    \/ handleConfirmSale
    \/ \E step \in Steps : StepFail(step)
    \/ OpenTableOk
    \/ AddItemsOk
    \/ PayTableOk
    \/ CreateSaleOk
    \/ GetByIdTableOk
    \/ GetByIdSaleOk

SpecCheckout == InitCheckout /\ [][NextCheckout]_vars

\* The checkout followed by the next sale: the catalog is fetched again, the
\* cart filled again from the tiles, while the table list of the last
\* fetchTables() may still be on its way and other terminals use the table.
InitRefill ==
    /\ InitCheckout
    /\ Len(items) = 2
    /\ customerId = Null
    /\ discount = 0
    /\ discountType = "percent"
    /\ srvTables = [t \in Tables |-> "DISPONIBLE"]

NextRefill ==
    \/ FetchTablesOk
    \/ \E t \in Tables, st \in {"RESERVADA", Inactive} : OtherTerminal(t, st)
    \/ \E t \in Tables : SelectTable(t)
    \/ PayButton("TARJETA_CREDITO")
    \/ handleConfirmSale
    \/ \E step \in Steps : StepFail(step)
    \/ OpenTableOk
    \/ AddItemsOk
    \/ PayTableOk
    \/ CreateSaleOk
    \/ GetByIdTableOk
    \/ GetByIdSaleOk
    \/ CloseInvoiceModal
    \/ FetchDataOk
    \/ \E p \in Products : TileClick(p)

SpecRefill == InitRefill /\ [][NextRefill]_vars

\* The Tables view, mounted on a floor the service holds; the POS page idle.
InitTables ==
    /\ route = "tables"
    /\ PageState
    /\ items = <<>>
    /\ customerId = Null
    /\ discount = 0
    /\ discountType = "percent"
    /\ products = [p \in Products |-> NotListed]
    /\ loading = FALSE
    /\ fetchDataPending = 0
    /\ fetchTablesPending = 0
    /\ srvTables = [t \in Tables |-> Inactive]
    /\ srvFloor \in InitialFloors
    /\ ViewState
    /\ InvoicesAbsent
    /\ InventoryAbsent
    /\ HooksAbsent

NextTables ==
    \/ \E ok \in BOOLEAN : InitDone(ok)
    \/ PollTick
    \/ \E ok \in BOOLEAN : FetchTablesDone(ok)
    \/ Unmount
    \/ \E t \in DOMAIN srvFloor : handleSelectTable(t)
    \/ \E table \in sessionPending, ok \in BOOLEAN : GetActiveSessionDone(table, ok)
    \/ ClosePanel
    \/ CloseModal
    \/ OpenOpenModal
    \/ handleOpenTable
    \/ \E ok \in BOOLEAN : OpenTableDone(ok)
    \/ \E ok \in BOOLEAN : HandlerFetchDone(ok)
    \/ \E ok \in BOOLEAN : GetByIdDone(ok)
    \/ OpenAddItemsModal
    \/ addProductToList
    \/ handleAddItems
    \/ \E ok \in BOOLEAN : AddItemsDone(ok)
    \/ \E d \in DetailIds : handleRemoveItem(d)
    \/ \E i \in 1..MaxRemoves, ok \in BOOLEAN : RemoveItemDone(i, ok)
    \/ OpenPayModal
    \/ \E m \in PaymentMethods : setPaymentMethod(m)
    \/ \E text \in ViewAmountTexts : setAmountReceived(text)
    \/ handlePayTable
    \/ \E ok \in BOOLEAN : PayTableDone(ok)

SpecTables == InitTables /\ [][NextTables]_vars

\* The Tables view mounted on a floor of two tables, both occupied.
InitTwoTables ==
    /\ route = "tables"
    /\ PageState
    /\ items = <<>>
    /\ customerId = Null
    /\ discount = 0
    /\ discountType = "percent"
    /\ products = [p \in Products |-> NotListed]
    /\ loading = FALSE
    /\ fetchDataPending = 0
    /\ fetchTablesPending = 0
    /\ srvTables = [t \in Tables |-> Inactive]
    /\ srvFloor = [t \in {1, 2} |-> Entry("OCUPADA", DetailIds)]
    /\ ViewState
    /\ InvoicesAbsent
    /\ InventoryAbsent
    /\ HooksAbsent

\* selecting tables, their orders, removing a line and paying
NextTwoTables ==
    \/ \E ok \in BOOLEAN : InitDone(ok)
    \/ \E t \in DOMAIN srvFloor : handleSelectTable(t)
    \/ \E table \in sessionPending, ok \in BOOLEAN : GetActiveSessionDone(table, ok)
    \/ ClosePanel
    \/ CloseModal
    \/ \E d \in DetailIds : handleRemoveItem(d)
    \/ \E i \in 1..MaxRemoves, ok \in BOOLEAN : RemoveItemDone(i, ok)
    \/ \E ok \in BOOLEAN : FetchTablesDone(ok)
    \/ OpenPayModal
    \/ \E text \in ViewAmountTexts : setAmountReceived(text)
    \/ handlePayTable
    \/ \E ok \in BOOLEAN : PayTableDone(ok)
    \/ \E ok \in BOOLEAN : HandlerFetchDone(ok)

SpecTwoTables == InitTwoTables /\ [][NextTwoTables]_vars

\* The invoices page, mounted: its effect has called fetchInvoices; the
\* other pages idle.
InitInvoices ==
    /\ route = "invoices"
    /\ PageState
    /\ items = <<>>
    /\ customerId = Null
    /\ discount = 0
    /\ discountType = "percent"
    /\ products = [p \in Products |-> NotListed]
    /\ loading = FALSE
    /\ fetchDataPending = 0
    /\ fetchTablesPending = 0
    /\ srvTables = [t \in Tables |-> Inactive]
    /\ ViewAbsent
    /\ InventoryAbsent
    /\ HooksAbsent
    /\ invLoading = TRUE
    /\ invoices = [i \in Invoices |-> Unlisted]
    /\ selectedInvoice = Null
    /\ showVoidModal = FALSE
    /\ voidReason = ""
    /\ invProcessing = FALSE
    /\ activeTab = "active"
    /\ voidPending = {}
    /\ invFetchPending = 1
    /\ srvInvoices \in [Invoices -> {"COMPLETADA", "ANULADA"}]

NextInvoices ==
    \/ \E ok \in BOOLEAN : FetchInvoicesDone(ok)
    \/ \E tab \in {"active", "voided"} : setActiveTab(tab)
    \/ \E i \in Invoices : openVoidModal(i)
    \/ \E text \in ReasonTexts : setVoidReason(text)
    \/ CloseVoidModal
    \/ VoidClick
    \/ \E r \in voidPending, ok \in BOOLEAN : VoidDone(r, ok)

SpecInvoices == InitInvoices /\ [][NextInvoices]_vars

\* The inventory page, mounted: its effect has called fetchInventory.
InitInventory ==
    /\ route = "inventory"
    /\ PageState
    /\ items = <<>>
    /\ customerId = Null
    /\ discount = 0
    /\ discountType = "percent"
    /\ products = [p \in Products |-> NotListed]
    /\ loading = FALSE
    /\ fetchDataPending = 0
    /\ fetchTablesPending = 0
    /\ srvTables = [t \in Tables |-> Inactive]
    /\ ViewAbsent
    /\ InvoicesAbsent
    /\ inventoryLoading = TRUE
    /\ inventory = NotListed
    /\ adjustModal = NoAdjust
    /\ adjustQuantity = EmptyText
    /\ adjustProcessing = FALSE
    /\ adjustReq = NoAdjust
    /\ inventoryPending = 1
    /\ srvStock \in [quantity : 0..1, productId : {Null, 1}]
    /\ HooksAbsent

NextInventory ==
    \/ \E ok \in BOOLEAN : FetchInventoryDone(ok)
    \/ \E type \in {"add", "remove"} : openAdjustModal(type)
    \/ \E text \in AdjustTexts : setAdjustQuantity(text)
    \/ CloseAdjustModal
    \/ handleAdjust
    \/ \E ok \in BOOLEAN : AdjustDone(ok)

\* One page is mounted at a time: the checkout of the POS page (here with
\* the two-line cart and no discount), the Tables view, the invoices page or
\* the inventory page.
InitBusy ==
    \/ InitCheckout /\ Len(items) = 2 /\ discount = 0
    \/ InitTables
    \/ InitInvoices
    \/ InitInventory

\* the Tables view with the create-table form of the administrators
NextCreateTable ==
    \/ OpenCreateModal
    \/ \E text \in {EmptyText, 2} : handleCreateTable(text)
    \/ \E ok \in BOOLEAN : CreateTableDone(ok)

NextBusy ==
    NextCheckout \/ NextTables \/ NextCreateTable \/ NextInvoices \/ NextInventory

SpecBusy == InitBusy /\ [][NextBusy]_vars

\* The hook in a mounted component: its effect has run connect() once.
InitSse ==
    /\ route = "kitchen"
    /\ PageState
    /\ items = <<>>
    /\ customerId = Null
    /\ discount = 0
    /\ discountType = "percent"
    /\ products = [p \in Products |-> NotListed]
    /\ loading = FALSE
    /\ fetchDataPending = 0
    /\ fetchTablesPending = 0
    /\ srvTables = [t \in Tables |-> Inactive]
    /\ ViewAbsent
    /\ InvoicesAbsent
    /\ InventoryAbsent
    /\ \E en \in BOOLEAN, token \in BOOLEAN :
          sse = connect([NoHook EXCEPT !.mounted = TRUE, !.enabled = en,
                                       !.accessToken = token], en)
    /\ settings = defaultState
    /\ stored = "absent"
    /\ blob = <<>>
    /\ dashboard = NoDashboard
    /\ reportsPage = NoReports

NextSse ==
    \/ \E es \in 1..MaxSources : Connected(es)
    \/ \E es \in 1..MaxSources : StreamError(es)
    \/ \E t \in sse.timers : TimerFires(t)
    \/ Tick
    \/ \E en \in BOOLEAN : Rerender(en)
    \/ UnmountHook
    \/ \E present \in BOOLEAN : setAccessToken(present)

SpecSse == InitSse /\ [][NextSse]_vars

\* The application starts on the settings page with whatever an earlier run,
\* of this or an older version, left in storage.
InitSettings ==
    /\ route = "settings"
    /\ PageState
    /\ items = <<>>
    /\ customerId = Null
    /\ discount = 0
    /\ discountType = "percent"
    /\ products = [p \in Products |-> NotListed]
    /\ loading = FALSE
    /\ fetchDataPending = 0
    /\ fetchTablesPending = 0
    /\ srvTables = [t \in Tables |-> Inactive]
    /\ ViewAbsent
    /\ InvoicesAbsent
    /\ InventoryAbsent
    /\ sse = NoHook
    /\ stored \in {"absent", "unreadable", "json"}
    /\ IF stored = "json"
       THEN \E theme \in Partial(ThemeKeys, {"#000000"}),
               company \in Partial(CompanyKeys, {"data:image/png;base64"}),
               rest \in Partial({"businessType"}, {"RESTAURANTE"}) :
              blob = Spread([theme |-> theme, company |-> company], rest)
       ELSE blob = <<>>
    /\ settings = initialState
    /\ dashboard = NoDashboard
    /\ reportsPage = NoReports

\* a dispatch of one of the five reducers
Dispatch(written) ==
    \/ \E payload \in Partial(ThemeKeys, Colors) : setTheme(payload, written)
    \/ \E payload \in Partial(CompanyKeys, CompanyTexts) : setCompany(payload, written)
    \/ \E payload \in BusinessTypes : setBusinessType(payload, written)
    \/ \E payload \in Partial({"businessType"}, BusinessTypes) \cup {[isLoading |-> TRUE]} :
          setSettings(payload, written)
    \/ resetTheme(written)

NextSettings ==
    \/ \E written \in BOOLEAN : Dispatch(written)
    \/ Reload

SpecSettings == InitSettings /\ [][NextSettings]_vars

\* The dashboard or the reports page, mounted, its effects run once.
InitRanges ==
    /\ PageState
    /\ items = <<>>
    /\ customerId = Null
    /\ discount = 0
    /\ discountType = "percent"
    /\ products = [p \in Products |-> NotListed]
    /\ loading = FALSE
    /\ fetchDataPending = 0
    /\ fetchTablesPending = 0
    /\ srvTables = [t \in Tables |-> Inactive]
    /\ ViewAbsent
    /\ InvoicesAbsent
    /\ InventoryAbsent
    /\ sse = NoHook
    /\ settings = defaultState
    /\ stored = "absent"
    /\ blob = <<>>
    /\ \/ route = "dashboard" /\ dashboard = Dashboard("today") /\ reportsPage = NoReports
       \/ route = "reports" /\ dashboard = NoDashboard /\ reportsPage = Reports("month")

NextRanges ==
    \/ \E range \in Ranges : setDateRange(range)
    \/ \E range \in Ranges, ok \in BOOLEAN : SummaryDone(range, ok)
    \/ \E ok \in BOOLEAN : TodayStatsDone(ok)
    \/ \E range \in Ranges, ok \in BOOLEAN : ChartDone(range, ok)
    \/ \E range \in Ranges : setReportRange(range)
    \/ \E range \in Ranges, ok \in BOOLEAN : ReportsDone(range, ok)

SpecRanges == InitRanges /\ [][NextRanges]_vars

\* ---------------------------------------------------------------- claims
Ops(cs) == [i \in 1..Len(cs) |-> cs[i].op]
IsPrefix(a, b) == Len(a) <= Len(b) /\ \A i \in 1..Len(a) : a[i] = b[i]
TableOps == {"openTable", "addItems", "payTable"}

\* one request line per cart line, in cart order
CartLinesOf(its) ==
    [i \in 1..Len(its) |->
        [productId |-> its[i].id, quantity |-> its[i].quantity, unitPrice |-> its[i].price]]

\* a click on "Confirmar Venta" that starts the handler
ConfirmStep == ~processing /\ processing'
\* the handler finishing one of its successful branches
SuccessStep == ~showInvoiceConfirmModal /\ showInvoiceConfirmModal'
\* the handler finishing in its catch block
FailureStep == pc # "idle" /\ pc' = "idle" /\ ~SuccessStep

\* C1: whatever cart the cart actions have produced and whatever the discount
\* kind and value, the derived totals satisfy total = subtotal - discountAmount,
\* 0 <= discountAmount <= subtotal and total >= 0.
C1_TotalsWithinSubtotal ==
    /\ Totals.total = Totals.subtotal - Totals.discountAmount
    /\ 0 <= Totals.discountAmount
    /\ Totals.discountAmount <= Totals.subtotal
    /\ Totals.total >= 0

\* a cart of one line with a fixed discount larger than its subtotal
C1_Witness ==
    /\ Len(items) = 1
    /\ discountType = "amount"
    /\ discount > items[1].price * items[1].quantity
    /\ Totals.total = 0

\* C2: with no table selected, the handler issues one createSale carrying the
\* cart's lines, customer, payment method, amount received and percentage
\* discount, then getById of the id the create response gave, and no table call.
C2_SaleRequest ==
    [op |-> "createSale", customerId |-> customerId, paymentMethod |-> paymentMethod,
     discountPercent |-> IF discountType = "percent" THEN discount ELSE 0,
     amountReceived |-> IF amountReceived = EmptyText THEN NaN ELSE amountReceived,
     details |-> CartLinesOf(items)]

C4_OccupiedTable ==
    /\ [][(ConfirmStep /\ selectedTableId # Null /\ tables[selectedTableId] = "OCUPADA") =>
            calls' = <<[op |-> "addItems", table |-> selectedTableId,
                        items |-> CartLinesOf(items)]>>]_vars
    /\ [](calls # <<>> /\ calls[1].op = "addItems" =>
            /\ IsPrefix(Ops(calls), <<"addItems", "payTable", "getById", "fetchData",
                                      "fetchTables">>)
            /\ \A i \in 1..Len(calls) : calls[i].op \in TableOps => calls[i].table = calls[1].table)

\* a finished checkout on a table that was already occupied
C4_Witness ==
    /\ Ops(calls) = <<"addItems", "payTable", "getById", "fetchData", "fetchTables">>
    /\ showInvoiceConfirmModal

\* C5: a cash checkout starts only when the amount received is a number not
\* below the total.
C5_CashNeedsEnough ==
    [][(ConfirmStep /\ paymentMethod = "EFECTIVO") =>
          (amountReceived # EmptyText /\ amountReceived >= Totals.total)]_vars

C7_RefetchAfterFailure ==
    [][(FailureStep /\ pc \in TableOps) => fetchTablesPending' = fetchTablesPending + 1]_vars

\* C8: a failed step ends the handler: no further request, nothing undone at
\* the service, cart, table selection and payment modal as they were; only a
\* new click on the confirm button issues requests again.
C8_FailureIsTerminal ==
    /\ [][FailureStep =>
            /\ calls' = calls
            /\ srvTables' = srvTables
            /\ cartVars' = cartVars
            /\ selectedTableId' = selectedTableId
            /\ showPaymentModal /\ showPaymentModal'
            /\ ~processing']_vars
    /\ [][(pc = "idle" /\ calls' # calls) =>
            (showPaymentModal /\ ~ConfirmDisabled /\ processing' /\ Len(calls') = 1)]_vars
    /\ [](\A i \in 1..Len(calls) :
            calls[i].op \in {"openTable", "addItems", "payTable", "createSale", "getById",
                             "fetchData", "fetchTables"})

\* addItems failed after openTable had succeeded: the table stays opened at the
\* service, the cart and the modal stay as they were
C8_Witness ==
    /\ pc = "idle"
    /\ Ops(calls) = <<"openTable", "addItems">>
    /\ toast = "Error al procesar la venta"
    /\ ~processing
    /\ showPaymentModal
    /\ items # <<>>
    /\ selectedTableId # Null
    /\ srvTables[selectedTableId] = "OCUPADA"

\* C9: every cart line's quantity is at most the stock the held catalog
\* snapshot reports for its product.
C9_CartWithinStock ==
    \A i \in 1..Len(items) : items[i].quantity <= StockOf(items[i].id)

\* C10: the tile add and the cart-line increment change the cart exactly when
\* the product's quantity in the cart is below the last-fetched stock, and then
\* by one unit of that product; at the threshold they only show the refusal.
C10_GuardAtThreshold ==
    [][(items' # items \/ toast' # toast) =>
        \A p \in Products :
          /\ TileClick(p) =>
                IF QuantityOf(items, p) < StockOf(p)
                THEN QuantityOf(items', p) = QuantityOf(items, p) + 1
                ELSE items' = items /\ toast' = "Sin stock disponible"
          /\ CartIncrement(p) =>
                IF QuantityOf(items, p) < StockOf(p)
                THEN QuantityOf(items', p) = QuantityOf(items, p) + 1
                ELSE items' = items /\ toast' = "Stock maximo alcanzado"]_vars

\* a tile add refused with the cart holding exactly the stock
C10_Witness ==
    /\ toast = "Sin stock disponible"
    /\ \E p \in Products : StockOf(p) > 0 /\ QuantityOf(items, p) = StockOf(p)

\* the quantities of the first n lines, added up
RECURSIVE QuantitiesUpTo(_, _)
QuantitiesUpTo(its, n) == IF n = 0 THEN 0 ELSE its[n].quantity + QuantitiesUpTo(its, n - 1)

\* C11: in every cart the cart actions can produce, each line has a quantity
\* of at least 1, and itemCount is the sum of the lines' quantities.
C11_LinesPositive ==
    /\ \A i \in 1..Len(items) : items[i].quantity >= 1
    /\ Totals.itemCount = QuantitiesUpTo(items, Len(items))

\* two lines, one of them with two units
C11_Witness ==
    /\ Len(items) = 2
    /\ Totals.itemCount = 3

\* C12: no two lines of a cart have the same product id; a tile add or a cart
\* increment of a product that has a line keeps the number of lines and raises
\* that line's quantity by one, every other line as it was.
C12_UniqueLines ==
    /\ [](\A i, j \in 1..Len(items) : items[i].id = items[j].id => i = j)
    /\ [][\A p \in Products :
            (items' # items /\ HasLine(items, p) /\ (TileClick(p) \/ CartIncrement(p))) =>
                /\ Len(items') = Len(items)
                /\ \A i \in 1..Len(items) :
                      items'[i] = IF items[i].id = p
                                  THEN [items[i] EXCEPT !.quantity = items[i].quantity + 1]
                                  ELSE items[i]]_vars

\* the second line holds two units: its product was added again after the
\* line existed
C12_Witness ==
    /\ Len(items) = 2
    /\ items[2].quantity = 2
    /\ items[1].quantity = 1

\* C13: the decrement button on a line of quantity 1 removes that line and
\* leaves the other lines, and their order, as they were.
C13_DecrementRemovesLastUnit ==
    [][\A p \in Products :
          (QuantityOf(items, p) = 1 /\ CartDecrement(p)) =>
              /\ ~HasLine(items', p)
              /\ items' = SelectSeq(items, LAMBDA l : l.id # p)]_vars

\* a cart whose second line holds one unit, the first one two: the decrement
\* button of the second line is the case
C13_Witness ==
    /\ Len(items) = 2
    /\ items[1].quantity = 2
    /\ items[2].quantity = 1
    /\ ~showPaymentModal

C15_CardAmountIsTotal ==
    [][(viewReq' # viewReq /\ viewReq'.op = "payTable"
            /\ viewReq'.paymentMethod # "EFECTIVO") =>
          viewReq'.amountReceived = activeSession.total]_vars

\* a Tables-view request that changed the service's state has just been answered
AddItemsAnswered == viewReq.op = "addItems" /\ viewReq'.op = "fetchTables"
PayAnswered == viewReq.op = "payTable" /\ viewReq'.op = "fetchTables"
RemoveAnswered == Len(removePending') < Len(removePending) /\ srvFloor' # srvFloor
\* the session the service holds for table t once the step is over
SessionAfter(t) ==
    [table |-> t, details |-> srvFloor'[t].details,
     total |-> 1000 * Cardinality(srvFloor'[t].details)]

\* C16 as stated: after a successful addItems, removeItem or pay of the mounted
\* view, activeSession is the session of that table as the call left it.
C16_ResponseReplacesSession ==
    [][(mounted /\ (AddItemsAnswered \/ PayAnswered \/ RemoveAnswered)) =>
          \E t \in ViewTables : srvFloor'[t] # srvFloor[t] /\ activeSession' = SessionAfter(t)]_vars

\* C16 amended: after a successful addItems or removeItem, activeSession is the
\* answered session whole, whatever session and table were held before; after
\* a successful pay the answer is not read and activeSession and selectedTable
\* are cleared.
C16_ReplacedOrCleared ==
    /\ [][(mounted /\ (AddItemsAnswered \/ RemoveAnswered)) =>
            \E t \in ViewTables :
                srvFloor'[t] # srvFloor[t] /\ activeSession' = SessionAfter(t)]_vars
    /\ [][(mounted /\ PayAnswered) =>
            /\ activeSession' = [table |-> Null, details |-> {}, total |-> 0]
            /\ selectedTable' = [id |-> Null, status |-> Unlisted]]_vars

\* the session shown after the answer of a removeItem: the order emptied, the
\* refetch the handler issued still in flight
C16_Witness ==
    /\ mounted
    /\ activeSession.table = 1
    /\ activeSession.details = {}
    /\ activeSession.total = 0
    /\ srvFloor[1].details = {}
    /\ removePending = <<>>
    /\ viewFetchPending = 1
    /\ viewReq.op = "none"

\* C17: a checkout that got a table operation through ends with a refetch of
\* the table list, and the table list changes only by taking a fetched list.
C17_RefetchAfterTableOp ==
    /\ [][(pc # "idle" /\ pc' = "idle"
              /\ \E i \in 1..Len(calls) : calls[i].op \in TableOps /\ i < Len(calls)) =>
            fetchTablesPending' = fetchTablesPending + 1]_vars
    /\ [][tables' # tables =>
            /\ fetchTablesPending' = fetchTablesPending - 1
            /\ tables' = [t \in Tables |->
                            IF srvTables[t] = Inactive THEN Unlisted ELSE srvTables[t]]]_vars

\* C18: the polling timer is armed exactly while the view is mounted; while it
\* is armed its callback can fire whatever the page is doing, and each firing
\* issues one fetchTables; a fetchTables that no handler issued starts only
\* while the view is mounted.
C18_PollWhileMounted ==
    /\ [](mounted <=> interval)
    /\ [](mounted /\ viewFetchPending < MaxPending => ENABLED PollTick)
    /\ [][PollTick => viewFetchPending' = viewFetchPending + 1]_vars
    /\ [][(viewFetchPending' > viewFetchPending /\ removePending' = removePending) =>
            mounted /\ mounted']_vars

\* the view has unmounted with a poll's refetch still in flight
C18_Witness ==
    /\ ~mounted
    /\ ~interval
    /\ viewFetchPending = 1
    /\ removePending = <<>>
    /\ viewReq.op = "none"

\* C19: every voidInvoice request carries a reason that is not blank; while
\* the reason field is blank no request is sent and the processing flag is
\* not raised; a successful void issues a refetch of the list, and once no
\* refetch is outstanding every listed invoice the service has voided is in
\* the voided partition and not in the active one.
C19_VoidedInvoiceMoves ==
    /\ [][\A r \in voidPending' \ voidPending : Trim(r.reason) # ""]_vars
    /\ [][Trim(voidReason) = "" =>
            voidPending' \subseteq voidPending /\ (invProcessing' => invProcessing)]_vars
    /\ [][srvInvoices' # srvInvoices => invFetchPending' = invFetchPending + 1]_vars
    /\ [](invFetchPending = 0 =>
            \A i \in Invoices :
                (srvInvoices[i] = "ANULADA" /\ invoices[i] # Unlisted) =>
                    i \in voidedInvoices /\ i \notin activeInvoices)

\* C20: of each mutating action of the Tables view at most one request is in
\* flight, and while a handler's request is in flight the processing flag that
\* disables its button is up.
C20_OneInFlight ==
    /\ Len(removePending) <= 1
    /\ (mounted /\ viewReq.op # "none") => viewProcessing
\* the awaits a suspended handler still has before it, at most
PosRank(step) ==
    CASE step = "openTable" -> 4
      [] step = "addItems" -> 3
      [] step \in {"payTable", "createSale"} -> 2
      [] step \in {"getByIdTable", "getByIdSale"} -> 1
      [] OTHER -> 0
ViewRank(req) ==
    CASE req.op = "none" -> 0
      [] req.op = "getById" -> 1
      [] req.op = "fetchTables" -> IF req.after = "openTable" THEN 2 ELSE 1
      [] req.op = "openTable" -> 3
      [] OTHER -> 2

\* C21: a busy flag is up only while the handler that raised it has a request
\* outstanding (processing of the POS checkout, of the Tables view, of the
\* invoices page and of the inventory page), so every exit of a handler, the
\* early returns included, leaves its flag down; and each request that
\* settles leaves the handler with fewer awaits before it, so once its
\* requests have settled the flag is down.
C21_BusyFlagsLowered ==
    /\ [](processing => pc # "idle")
    /\ [](mounted /\ viewProcessing => viewReq.op # "none")
    /\ [](invProcessing => voidPending # {})
    /\ [](adjustProcessing => adjustReq # NoAdjust)
    /\ [][pc' # pc /\ pc # "idle" => PosRank(pc') < PosRank(pc)]_vars
    /\ [][viewReq' # viewReq /\ viewReq.op # "none" =>
            ViewRank(viewReq') < ViewRank(viewReq)]_vars
    /\ [][voidPending' # voidPending /\ voidPending # {} => voidPending' = {}]_vars
    /\ [][adjustReq' # adjustReq /\ adjustReq # NoAdjust => adjustReq' = NoAdjust]_vars

\* a checkout has issued requests and one of them has failed: the payment
\* modal is still up, the handler is over and the flag is down again
C21_Witness ==
    /\ route = "pos"
    /\ calls # <<>>
    /\ pc = "idle"
    /\ showPaymentModal
    /\ ~processing

\* C22: every stream error closes the failed EventSource and leaves a
\* reconnect timer pending that is due in 5 seconds; a timer fires when its
\* 5 seconds have passed, and with a token in storage its firing opens a new
\* EventSource; and no step takes the pending timer away from a hook that
\* stays mounted and enabled with a token without opening one.  No count of
\* attempts is kept anywhere.
C22_ReconnectAfterError ==
    /\ [][\A es \in 1..MaxSources :
            StreamError(es) =>
                /\ es \notin sse'.openSources
                /\ [id |-> sse'.reconnectTimeoutRef, remaining |-> 5] \in sse'.timers]_vars
    /\ [][\A t \in sse.timers :
            TimerFires(t) =>
                /\ t.remaining = 0
                /\ sse.accessToken => sse'.eventSourceRef \in sse'.openSources]_vars
    /\ [][/\ sse.timers # {} /\ sse'.timers = {}
          /\ sse'.mounted /\ sse'.enabled /\ sse.accessToken
          => sse'.openSources # {}]_vars

\* the third reconnection in a row is open
C22_Witness ==
    /\ sse.reconnects = MaxReconnects
    /\ sse.mounted
    /\ sse.eventSourceRef \in sse.openSources

\* C29: the open EventSources and the pending reconnect timers number at
\* most one together, and the open one is the one eventSourceRef names; once
\* the hook is unmounted there is none of either.
C29_OneSourceOrOneTimer ==
    /\ Cardinality(sse.openSources) + Cardinality(sse.timers) <= 1
    /\ sse.openSources \subseteq {sse.eventSourceRef}
    /\ TimerIds(sse) \subseteq {sse.reconnectTimeoutRef}
    /\ route = "kitchen" /\ ~sse.mounted => sse.openSources = {} /\ sse.timers = {}

\* unmounted after an error whose timer never reconnected
C29_Witness ==
    /\ route = "kitchen"
    /\ ~sse.mounted
    /\ sse.reconnectTimeoutRef # Null
    /\ sse.reconnects = 0
    /\ sse.enabled /\ sse.accessToken

\* C23: every step of a settings reducer leaves in storage the JSON of the
\* theme, company and businessType of the state it produced; starting the
\* application on a stored JSON gives every field the JSON holds and the
\* default for every field it lacks; with nothing readable in storage the
\* start gives the defaults.
C23_BlobFollowsState ==
    /\ [][(\E written \in BOOLEAN : Dispatch(written)) =>
            stored' = "json" /\ blob' = Saved(settings')]_vars
    /\ [](stored = "json" =>
            /\ \A k \in {"theme", "company"} : \A f \in DOMAIN defaultState[k] :
                  initialState[k][f] =
                     IF k \in DOMAIN blob /\ f \in DOMAIN blob[k]
                     THEN blob[k][f]
                     ELSE defaultState[k][f]
            /\ initialState.businessType =
                  IF "businessType" \in DOMAIN blob
                  THEN blob.businessType
                  ELSE defaultState.businessType)
    /\ [](stored # "json" => initialState = defaultState)

\* C24: in the Tables view a session held in activeSession is always the
\* session of the table held in selectedTable.
C24_SessionOfSelectedTable ==
    activeSession # NoSession => activeSession.table = selectedTable.id

\* C25: a click on "Confirmar Venta" with a table selected never starts the
\* direct sale, whatever the table list says about that table.
C25_TableCheckout ==
    [][handleConfirmSale /\ selectedTableId # Null => pc' # "createSale"]_vars

\* the last checkout got the lines of the cart into the open session of the
\* selected table and failed afterwards; the cart is as it was
LinesAccepted ==
    /\ pc = "idle"
    /\ selectedTableId # Null
    /\ srvTables[selectedTableId] = "OCUPADA"
    /\ \E i \in 1..Len(calls) :
          /\ calls[i].op = "addItems"
          /\ calls[i].table = selectedTableId
          /\ calls[i].items = Lines(items)
          /\ i < Len(calls)
    /\ \A i \in 1..Len(calls) : calls[i].op # "getById"

\* C27: a retry of a table checkout whose lines the session already holds
\* does not send the lines of the cart to that session again.
C27_LinesAddedOnce ==
    [][LinesAccepted /\ handleConfirmSale => pc' # "addItems"]_vars

\* C26: while a createSale or payTable request is out, the discount its
\* discountPercent yields on the cart's subtotal is the discountAmount the
\* payment modal showed.
C26_DiscountAsShown ==
    pc \in {"createSale", "payTable"} =>
        (Subtotal(items) * calls[Len(calls)].discountPercent) \div 100 = Totals.discountAmount

\* C30: once no request of the page is in flight, the summary, the chart and
\* the report shown, when they are those of a range, are those of the range
\* selected.
C30_LatestRangeShown ==
    /\ (route = "dashboard" /\ dashboard.summaryPending = {} /\ dashboard.chartPending = {}
           /\ dashboard.todayPending = 0) =>
          /\ dashboard.summaryStats \in Ranges => dashboard.summaryStats = dashboard.dateRange
          /\ dashboard.dailySales \in Ranges => dashboard.dailySales = dashboard.dateRange
    /\ (route = "reports" /\ reportsPage.pending = {}) =>
          (reportsPage.salesSummary \in Ranges =>
              reportsPage.salesSummary = reportsPage.dateRange)

\* C28: each time a fetchTables of the Tables view brings a list, whoever
\* called it, the status the panel holds for the selected table is the status
\* of that table in the list just received.
C28_PanelFollowsList ==
    [][/\ mounted
       /\ InitDone(TRUE) \/ FetchTablesDone(TRUE) \/ HandlerFetchDone(TRUE)
       /\ selectedTable' # NoTable
       => selectedTable'.status = viewTables'[selectedTable'.id].status]_vars

====
